---- MODULE Spec2Model ----
(***************************************************************************)
(* A model of django-drf-dynamics: the range and date filter backends, the *)
(* dynamic list action with its cache, and the filter-metadata action.     *)
(*                                                                         *)
(* A Python str is a sequence of tokens.  The separators the code splits   *)
(* on (",", ":", "-") and the blank are tokens of their own; a field name, *)
(* a decimal literal, an ISO date literal and a run of other characters    *)
(* are one token each.  None is the sequence None below.                   *)
(***************************************************************************)
EXTENDS Integers, Sequences, FiniteSets, TLC

\* ------------------------------------------------------------------ bounds
\* The largest number of comma-separated members in a ranges parameter.
MaxMembers == 2

\* ----------------------------------------------------------- Python values
None == <<"<None>">>

\* Python truthiness of an optional str: None and "" are falsy.
Truthy(s) == s # None /\ s # <<>>

\* The exceptions the modelled code can raise; NoExc is normal completion.
NoExc == "none"

\* ------------------------------------------------------------- str methods
RECURSIVE IndexOf(_, _, _)
\* The least i >= from with s[i] = sep, or 0.
IndexOf(s, sep, from) ==
    IF from > Len(s) THEN 0
    ELSE IF s[from] = sep THEN from
    ELSE IndexOf(s, sep, from + 1)

RECURSIVE Split(_, _)
\* str.split(sep): the pieces between the separators, at least one piece.
Split(s, sep) ==
    LET i == IndexOf(s, sep, 1)
    IN  IF i = 0 THEN <<s>>
        ELSE <<SubSeq(s, 1, i - 1)>> \o Split(SubSeq(s, i + 1, Len(s)), sep)

RECURSIVE LStrip(_)
LStrip(s) == IF s # <<>> /\ Head(s) = " " THEN LStrip(Tail(s)) ELSE s

RECURSIVE RStrip(_)
RStrip(s) ==
    IF s # <<>> /\ s[Len(s)] = " " THEN RStrip(SubSeq(s, 1, Len(s) - 1)) ELSE s

\* str.strip()
Strip(s) == RStrip(LStrip(s))

RECURSIVE Join(_, _)
\* sep.join(parts)
Join(parts, sep) ==
    IF parts = <<>> THEN <<>>
    ELSE IF Len(parts) = 1 THEN parts[1]
    ELSE parts[1] \o <<sep>> \o Join(Tail(parts), sep)

\* ------------------------------------------------------------- Python dict
\* A dict is a sequence of <<key, value>> in insertion order; assigning to a
\* key that is present replaces its value in place.
DictHas(d, k) == \E i \in 1..Len(d) : d[i][1] = k

DictSet(d, k, v) ==
    IF DictHas(d, k)
    THEN [i \in 1..Len(d) |-> IF d[i][1] = k THEN <<k, v>> ELSE d[i]]
    ELSE Append(d, <<k, v>>)

\* ------------------------------------------------------------ the database
AmountFields == {"trans_amount", "trans_commissions"}
DateFields == {"created_at__date", "birthday"}
ModelFields == AmountFields \cup DateFields

\* decimal.Decimal(str): the literals it accepts, with their values.
DecimalLiterals == {"0", "100", "300"}
DecimalValue(tok) ==
    CASE tok = "0" -> 0
      [] tok = "100" -> 100
      [] tok = "300" -> 300

\* datetime.fromisoformat(str).date(): the literals it accepts, as YYYYMMDD.
IsoDates == {"2023-01-12", "2023-02-23"}
DateValue(tok) ==
    CASE tok = "2023-01-12" -> 20230112
      [] tok = "2023-02-23" -> 20230223

AmountColumn == {50, 200, 400}
DateColumn == {20230101, 20230201, 20230301}

\* The rows the querysets range over: every combination of column values.
\* Each backend is handed the columns its parameter can name.
AmountTable == [AmountFields -> AmountColumn]
DateTable == [DateFields -> DateColumn]

\* ------------------------------------------------------------------ Q, ORM
\* A Q object is the set of its conjuncts; Q() is the empty set.
Lookup(field, op, value) == [field |-> field, op |-> op, value |-> value]

QAnd(q1, q2) == q1 \cup q2

Holds(r, c) ==
    IF c.op = "gte" THEN r[c.field[1]] >= c.value ELSE r[c.field[1]] <= c.value

\* A lookup on a keyword that names no model field makes filter() raise.
Resolves(q) == \A c \in q : Len(c.field) = 1 /\ c.field[1] \in ModelFields

\* What a filter backend hands back: a queryset, or the exception it raised.
Returned(rows, q) == [exc |-> NoExc, rows |-> rows, q |-> q, filtered |-> TRUE]
Unfiltered(rows) == [exc |-> NoExc, rows |-> rows, q |-> {}, filtered |-> FALSE]
Raised(exc) == [exc |-> exc, rows |-> {}, q |-> {}, filtered |-> FALSE]

\* queryset.filter(q)
QuerysetFilter(rows, q) ==
    IF Resolves(q)
    THEN Returned({r \in rows : \A c \in q : Holds(r, c)}, q)
    ELSE Raised("FieldError")

\* ------------------------------------------------------------ Python lists
\* list[i] with a 0-based index: IndexError when i is out of range.
ListHasIndex(l, i) == i >= 0 /\ i < Len(l)

\* list[i] = v: an assignment never extends the list.
ListSetItem(l, i, v) == [l EXCEPT ![i + 1] = v]

\* ----------------------------------------------------- AmountFilterBackend
\* decimal.Decimal(s) accepts a literal with blanks around it.
IsDecimal(s) == Len(Strip(s)) = 1 /\ Strip(s)[1] \in DecimalLiterals
Decimal(s) == DecimalValue(Strip(s)[1])

\* One pass of the loop that fills amount_ranges_dict.
AmountRangeStep(amount_range, amount_ranges_dict) ==
    LET amount_range_elements == Split(Strip(amount_range), ":")
    IN  IF ~ListHasIndex(amount_range_elements, 1)
        THEN [exc |-> "IndexError", dict |-> amount_ranges_dict]
        ELSE
          LET amount_range_element_split == Split(amount_range_elements[2], "-")
              amount_range_element_split_len == Len(amount_range_element_split)
          IN  IF amount_range_element_split_len > 2
                    \/ amount_range_element_split_len <= 0
              THEN [exc |-> NoExc, dict |-> amount_ranges_dict]
              ELSE IF amount_range_element_split_len = 1
                      /\ ~ListHasIndex(amount_range_element_split, 1)
              THEN [exc |-> "IndexError", dict |-> amount_ranges_dict]
              ELSE [exc |-> NoExc,
                    dict |-> DictSet(amount_ranges_dict,
                                     Strip(amount_range_elements[1]),
                                     IF amount_range_element_split_len = 1
                                     THEN ListSetItem(amount_range_element_split, 1, None)
                                     ELSE amount_range_element_split)]

RECURSIVE AmountRangesLoop(_, _)
\* for amount_range in amount_ranges_split: ...
AmountRangesLoop(amount_ranges_split, amount_ranges_dict) ==
    IF amount_ranges_split = <<>>
    THEN [exc |-> NoExc, dict |-> amount_ranges_dict]
    ELSE LET step == AmountRangeStep(Head(amount_ranges_split), amount_ranges_dict)
         IN  IF step.exc # NoExc THEN step
             ELSE AmountRangesLoop(Tail(amount_ranges_split), step.dict)

\* One pass of the loop that builds amount_filter_q.
AmountQStep(amount_field, amount_list, amount_filter_q) ==
    LET amount_low == amount_list[1]
        amount_high == amount_list[2]
    IN  IF ~IsDecimal(amount_low) \/ (Truthy(amount_high) /\ ~IsDecimal(amount_high))
        THEN amount_filter_q
        ELSE IF Truthy(amount_high) /\ Decimal(amount_high) # 0
        THEN QAnd({Lookup(amount_field, "gte", Decimal(amount_low))},
                  {Lookup(amount_field, "lte", Decimal(amount_high))})
        ELSE {Lookup(amount_field, "gte", Decimal(amount_low))}

RECURSIVE AmountQLoop(_, _)
\* for amount_field, amount_list in amount_ranges_dict.items(): ...
AmountQLoop(items, amount_filter_q) ==
    IF items = <<>> THEN amount_filter_q
    ELSE AmountQLoop(Tail(items),
                     AmountQStep(Head(items)[1], Head(items)[2], amount_filter_q))

\* AmountFilterBackend.filter_queryset(request, queryset, view)
AmountFilterQueryset(query_params, queryset) ==
    LET amount_ranges_all == query_params.amount_ranges
    IN  IF ~Truthy(amount_ranges_all) THEN Unfiltered(queryset)
        ELSE
          LET parsed == AmountRangesLoop(Split(amount_ranges_all, ","), <<>>)
          IN  IF parsed.exc # NoExc THEN Raised(parsed.exc)
              ELSE IF parsed.dict = <<>> THEN Unfiltered(queryset)
              ELSE QuerysetFilter(queryset, AmountQLoop(parsed.dict, {}))

\* ------------------------------------------------------- DateFilterBackend
\* timezone.datetime.fromisoformat(s).date(): ValueError unless s is a literal.
IsIsoDate(s) == Len(s) = 1 /\ s[1] \in IsoDates
FromIsoFormat(s) == DateValue(s[1])

\* getattr(view, "date_field", custom_date_field), then the default name.
ViewDateField(view, custom_date_field) ==
    LET date_field == IF view.has_date_field THEN view.date_field
                      ELSE custom_date_field
    IN  IF ~Truthy(date_field) THEN <<"created_at__date">> ELSE date_field

\* The deprecated branch with the date_to comparison left out.
DateFromToQuerysetNoUpper(query_params, queryset, view) ==
    LET date_from == query_params.date_from
        date_to == query_params.date_to
        date_field == ViewDateField(view, query_params.custom_date_field)
    IN  IF ~IsIsoDate(date_from) \/ (Truthy(date_to) /\ ~IsIsoDate(date_to))
        THEN Unfiltered(queryset)
        ELSE QuerysetFilter(queryset,
                 {Lookup(date_field, "gte", FromIsoFormat(date_from))})

\* The deprecated date_from / date_to branch.
DateFromToQueryset(query_params, queryset, view) ==
    LET date_from == query_params.date_from
        date_to == query_params.date_to
        date_field == ViewDateField(view, query_params.custom_date_field)
    IN  IF ~IsIsoDate(date_from) \/ (Truthy(date_to) /\ ~IsIsoDate(date_to))
        THEN Unfiltered(queryset)
        ELSE IF Truthy(date_to)
        THEN QuerysetFilter(queryset,
                 QAnd({Lookup(date_field, "gte", FromIsoFormat(date_from))},
                      {Lookup(date_field, "lte", FromIsoFormat(date_to))}))
        ELSE QuerysetFilter(queryset,
                 {Lookup(date_field, "gte", FromIsoFormat(date_from))})

\* One pass of the loop that fills date_ranges_dict.
DateRangeStep(date_range, date_ranges_dict) ==
    LET date_range_elements == Split(Strip(date_range), ":")
        date_range_element_len == Len(date_range_elements)
    IN  IF date_range_element_len > 3 \/ date_range_element_len <= 1
        THEN date_ranges_dict
        ELSE IF date_range_element_len = 2
        THEN DictSet(date_ranges_dict, Strip(date_range_elements[1]),
                     <<Strip(date_range_elements[2])>>)
        ELSE DictSet(date_ranges_dict, Strip(date_range_elements[1]),
                     <<Strip(date_range_elements[2]), Strip(date_range_elements[3])>>)

RECURSIVE DateRangesLoop(_, _)
\* for date_range in date_ranges_split: ...
DateRangesLoop(date_ranges_split, date_ranges_dict) ==
    IF date_ranges_split = <<>> THEN date_ranges_dict
    ELSE DateRangesLoop(Tail(date_ranges_split),
                        DateRangeStep(Head(date_ranges_split), date_ranges_dict))

\* One pass of the loop that builds date_filter_q: date_list[1] is read
\* whatever the length of date_list.
DateQStep(date_field, date_list, date_filter_q) ==
    IF ~ListHasIndex(date_list, 1)
    THEN [exc |-> "IndexError", q |-> date_filter_q]
    ELSE
      LET date_low == date_list[1]
          date_high == date_list[2]
      IN  IF ~IsIsoDate(date_low) \/ (Truthy(date_high) /\ ~IsIsoDate(date_high))
          THEN [exc |-> NoExc, q |-> date_filter_q]
          ELSE IF Truthy(date_high)
          THEN [exc |-> NoExc,
                q |-> QAnd({Lookup(date_field, "gte", FromIsoFormat(date_low))},
                           {Lookup(date_field, "lte", FromIsoFormat(date_high))})]
          ELSE [exc |-> NoExc,
                q |-> {Lookup(date_field, "gte", FromIsoFormat(date_low))}]

RECURSIVE DateQLoop(_, _)
\* for date_field, date_list in date_ranges_dict.items(): ...
DateQLoop(items, date_filter_q) ==
    IF items = <<>> THEN [exc |-> NoExc, q |-> date_filter_q]
    ELSE LET step == DateQStep(Head(items)[1], Head(items)[2], date_filter_q)
         IN  IF step.exc # NoExc THEN step
             ELSE DateQLoop(Tail(items), step.q)

\* The date_ranges branch.
DateRangesQueryset(query_params, queryset) ==
    LET date_ranges_all == query_params.date_ranges
    IN  IF ~Truthy(date_ranges_all) THEN Unfiltered(queryset)
        ELSE
          LET built == DateQLoop(DateRangesLoop(Split(date_ranges_all, ","), <<>>), {})
          IN  IF built.exc # NoExc THEN Raised(built.exc)
              ELSE QuerysetFilter(queryset, built.q)

\* DateFilterBackend.filter_queryset(request, queryset, view)
DateFilterQueryset(query_params, queryset, view) ==
    IF Truthy(query_params.date_from)
    THEN DateFromToQueryset(query_params, queryset, view)
    ELSE DateRangesQueryset(query_params, queryset)

\* ------------------------------------------------------------------- state
VARIABLES
    op,         \* the operation the request is for
    pc,         \* "received" until the operation has answered, then "done"
    request,    \* the query parameters
    view,       \* the attributes of the view
    response,   \* what the operation returned, or the exception it raised
    cache,      \* the cache service: key -> [data, ttl]
    db,         \* the stored objects of the listed model
    steps,      \* how many operations the server has run
    backend_called,  \* whether the last operation ran the backend's get_list_data
    filterset_metadata  \* the filterset_metadata attribute of the view class

vars == <<op, pc, request, view, response, cache, db, steps, backend_called,
          filterset_metadata>>

\* The cache with no entry.
EmptyCache == <<>>

\* A class attribute that holds a list or a tuple, or is None.
Attribute(kind, items) == [kind |-> kind, items |-> items]
NotConfigured == Attribute("None", <<>>)

\* ------------------------------------------------------------------ inputs
\* The sequences of 1..MaxMembers elements of S.
Lists(S) == UNION {[1..n -> S] : n \in 1..MaxMembers}

QueryParams(amount_ranges, date_from, date_to, custom_date_field, date_ranges) ==
    [amount_ranges |-> amount_ranges, date_from |-> date_from, date_to |-> date_to,
     custom_date_field |-> custom_date_field, date_ranges |-> date_ranges]

AmountLows == {<<>>, <<"100">>, <<"abc">>}
AmountHighs == {<<>>, <<"0">>, <<"300">>, <<"abc">>}

\* What stands after the ":" of a member.
AmountRangeStrings ==
    AmountLows
    \cup {lo \o <<"-">> \o hi : lo \in AmountLows, hi \in AmountHighs}
    \cup {<<"100", "-", "300", "-", "100">>}

AmountMembers ==
    {<<f>> : f \in AmountFields}
    \cup {<<f, ":">> \o r : f \in AmountFields, r \in AmountRangeStrings}
    \cup {<<" ", "trans_amount", " ", ":", "100", "-", " ", "300", " ">>}

AmountRequests ==
    {QueryParams(a, None, None, None, None) :
        a \in {None, <<>>} \cup {Join(ms, ",") : ms \in Lists(AmountMembers)}}

DateLows == {<<>>, <<"2023-01-12">>, <<"12/01/2023">>}
DateHighs == {<<>>, <<"2023-02-23">>, <<"23/02/2023">>}

DateMembers ==
    {<<f>> : f \in DateFields}
    \cup {<<f, ":">> \o lo : f \in DateFields, lo \in DateLows}
    \cup {<<f, ":">> \o lo \o <<":">> \o hi :
            f \in DateFields, lo \in DateLows, hi \in DateHighs}
    \cup {<<f, ":", "2023-01-12", ":", "2023-02-23", ":", "2023-01-12">> :
            f \in DateFields}
    \cup {<<" ", "birthday", " ", ":", " ", "2023-01-12", ":", "2023-02-23", " ">>}

DateRangesRequests ==
    {QueryParams(None, df, None, None, d) :
        df \in {None, <<>>},
        d \in {None, <<>>} \cup {Join(ms, ",") : ms \in Lists(DateMembers)}}

DateFromToRequests ==
    {QueryParams(None, df, dt, cf, d) :
        df \in {<<"2023-01-12">>, <<"12/01/2023">>, <<" ", "2023-01-12">>},
        dt \in {None} \cup DateHighs,
        cf \in {None, <<"birthday">>},
        d \in {None, <<"birthday", ":", "2023-02-23">>}}

NoView == [has_date_field |-> FALSE, date_field |-> None]

Views ==
    {NoView}
    \cup {[has_date_field |-> TRUE, date_field |-> f] :
            f \in {None, <<"created_at__date">>, <<"birthday">>}}

\* ----------------------------------------------------------------- actions
\* A request has arrived at one of the two filter backends.
InitFilters ==
    /\ pc = "received"
    /\ \/ /\ op = "AmountFilterBackend"
          /\ request \in AmountRequests
          /\ view = NoView
       \/ /\ op = "DateFilterBackend"
          /\ request \in DateRangesRequests \cup DateFromToRequests
          /\ view \in Views
          /\ Truthy(request.date_from) \/ view = NoView
    /\ response = Raised(NoExc)
    /\ cache = EmptyCache
    /\ db = {}
    /\ steps = 0
    /\ backend_called = FALSE
    /\ filterset_metadata = NotConfigured

\* AmountFilterBackend answers the request.
AmountFilter ==
    /\ pc = "received"
    /\ op = "AmountFilterBackend"
    /\ pc' = "done"
    /\ response' = AmountFilterQueryset(request, AmountTable)
    /\ UNCHANGED <<op, request, view, cache, db, steps, backend_called, filterset_metadata>>

\* DateFilterBackend answers the request.
DateFilter ==
    /\ pc = "received"
    /\ op = "DateFilterBackend"
    /\ pc' = "done"
    /\ response' = DateFilterQueryset(request, DateTable, view)
    /\ UNCHANGED <<op, request, view, cache, db, steps, backend_called, filterset_metadata>>

NextFilters == AmountFilter \/ DateFilter

SpecFilters == InitFilters /\ [][NextFilters]_vars

\* --------------------------------------------------- claims on the filters
AmountDone == pc = "done" /\ op = "AmountFilterBackend"
DateDone == pc = "done" /\ op = "DateFilterBackend"

\* The members of a ranges parameter, as the text between its commas.
MembersOf(param) == Split(param, ",")

\* A member field:low-high or field:low with decimal bounds above zero.
AmountBounds == DecimalLiterals \ {"0"}
IsAmountLowHigh(m) ==
    Len(m) = 5 /\ m[1] \in AmountFields /\ m[2] = ":" /\ m[3] \in AmountBounds
               /\ m[4] = "-" /\ m[5] \in AmountBounds
IsAmountLowOnly(m) ==
    Len(m) = 3 /\ m[1] \in AmountFields /\ m[2] = ":" /\ m[3] \in AmountBounds

\* The rows a well-formed amount member asks for.
AmountMemberHolds(r, m) ==
    /\ r[m[1]] >= DecimalValue(m[3])
    /\ IsAmountLowHigh(m) => r[m[1]] <= DecimalValue(m[5])

\* A member field:from:to or field:from with ISO dates.
IsDateFromTo(m) ==
    Len(m) = 5 /\ m[1] \in DateFields /\ m[2] = ":" /\ m[3] \in IsoDates
               /\ m[4] = ":" /\ m[5] \in IsoDates
IsDateFromOnly(m) ==
    Len(m) = 3 /\ m[1] \in DateFields /\ m[2] = ":" /\ m[3] \in IsoDates

\* The rows a well-formed date member asks for.
DateMemberHolds(r, m) ==
    /\ r[m[1]] >= DateValue(m[3])
    /\ IsDateFromTo(m) => r[m[1]] <= DateValue(m[5])

\* Several members, each for a field of its own.
SeveralFields(ms) ==
    /\ Len(ms) >= 2
    /\ \A i, j \in 1..Len(ms) : i # j => ms[i][1] # ms[j][1]

\* C2: for every amount_ranges value AmountFilterBackend returns a queryset
\* without raising, and returns the unfiltered queryset when no member of the
\* parameter is usable.
C2_AmountFilterNeverRaises ==
    AmountDone =>
        /\ response.exc = NoExc
        /\ (Truthy(request.amount_ranges)
            /\ \A i \in 1..Len(MembersOf(request.amount_ranges)) :
                LET m == MembersOf(request.amount_ranges)[i]
                IN  ~IsAmountLowHigh(m) /\ ~IsAmountLowOnly(m))
           => response.rows = AmountTable

\* C3: with no date_from, a date_ranges member field:from without a to-date
\* restricts the queryset to field >= from, and the call does not raise.
C3_DateFromOnlyMemberApplied ==
    (DateDone /\ ~Truthy(request.date_from) /\ Truthy(request.date_ranges)
        /\ IsDateFromOnly(request.date_ranges))
    => /\ response.exc = NoExc
       /\ response.rows =
            {r \in DateTable : r[request.date_ranges[1]] >= DateValue(request.date_ranges[3])}

\* C4: when date_ranges holds several well-formed members for different
\* fields, the queryset DateFilterBackend returns satisfies the range of
\* every member.
C4_DateRangesConjunction ==
    (DateDone /\ ~Truthy(request.date_from) /\ Truthy(request.date_ranges)
        /\ response.exc = NoExc)
    => LET ms == MembersOf(request.date_ranges)
       IN  (/\ \A i \in 1..Len(ms) : IsDateFromTo(ms[i]) \/ IsDateFromOnly(ms[i])
            /\ SeveralFields(ms))
           => \A r \in response.rows : \A i \in 1..Len(ms) : DateMemberHolds(r, ms[i])

\* C5: when amount_ranges holds several well-formed members for different
\* fields, the queryset AmountFilterBackend returns satisfies the range of
\* every member.
C5_AmountRangesConjunction ==
    (AmountDone /\ Truthy(request.amount_ranges) /\ response.exc = NoExc)
    => LET ms == MembersOf(request.amount_ranges)
       IN  (/\ \A i \in 1..Len(ms) : IsAmountLowHigh(ms[i]) \/ IsAmountLowOnly(ms[i])
            /\ SeveralFields(ms))
           => \A r \in response.rows : \A i \in 1..Len(ms) : AmountMemberHolds(r, ms[i])

\* C6: an amount_ranges member field:low without a "-" is applied as
\* field >= low; it is neither skipped nor an error.
C6_AmountLowOnlyApplied ==
    (AmountDone /\ Truthy(request.amount_ranges)
        /\ IsAmountLowOnly(request.amount_ranges))
    => /\ response.exc = NoExc
       /\ response.rows =
            {r \in AmountTable :
                r[request.amount_ranges[1]] >= DecimalValue(request.amount_ranges[3])}

\* The date field the deprecated branch filters on.
C7_Field == ViewDateField(view, request.custom_date_field)[1]

\* C7: with date_from present, an invalid date_from or date_to returns the
\* queryset unfiltered; otherwise the queryset is restricted to
\* date_field >= date_from and, only when date_to is given, to
\* date_field <= date_to.
C7_DateFromTo ==
    (DateDone /\ Truthy(request.date_from))
    => IF ~(Len(request.date_from) = 1 /\ request.date_from[1] \in IsoDates)
          \/ (Truthy(request.date_to)
              /\ ~(Len(request.date_to) = 1 /\ request.date_to[1] \in IsoDates))
       THEN response.exc = NoExc /\ response.rows = DateTable /\ ~response.filtered
       ELSE /\ response.exc = NoExc
            /\ response.rows =
                {r \in DateTable :
                    /\ r[C7_Field] >= DateValue(request.date_from[1])
                    /\ Truthy(request.date_to)
                        => r[C7_Field] <= DateValue(request.date_to[1])}

\* A request with valid date_from and date_to that cut rows off at both ends.
C7_Witness ==
    /\ DateDone
    /\ request.date_from = <<"2023-01-12">>
    /\ request.date_to = <<"2023-02-23">>
    /\ response.filtered
    /\ \E r \in DateTable \ response.rows : r[C7_Field] < 20230112
    /\ \E r \in DateTable \ response.rows : r[C7_Field] > 20230223
    /\ response.rows # {}

\* ==================================================== the list mixins ====
\* int(s) for a str: an optional sign and a literal, blanks around allowed.
IntLiterals == {"0", "1", "2", "3"}
IntLiteralValue(tok) ==
    CASE tok = "0" -> 0
      [] tok = "1" -> 1
      [] tok = "2" -> 2
      [] tok = "3" -> 3

IsInt(s) ==
    LET t == Strip(s)
    IN  \/ Len(t) = 1 /\ t[1] \in IntLiterals
        \/ Len(t) = 2 /\ t[1] \in {"-", "+"} /\ t[2] \in IntLiterals

ParseInt(s) ==
    LET t == Strip(s)
    IN  IF Len(t) = 1 THEN IntLiteralValue(t[1])
        ELSE IF t[1] = "-" THEN 0 - IntLiteralValue(t[2])
        ELSE IntLiteralValue(t[2])

\* dict.get(key, default) on a dict modelled as a function.
Get(d, key, default) == IF key \in DOMAIN d THEN d[key] ELSE default

\* ---------------------------------------------------- ListConfigurationMixin
\* ListConfigurationMixin.default_list_configuration
default_list_configuration == <<"default">>

\* per_page of the generated configuration, and the fallback of config.get.
DefaultPerPage == 25

\* ListConfigurationMixin._generate_default_list_configuration
GenerateDefaultListConfiguration(v) ==
    [fields |-> SubSeq(v.serializer_fields, 1,
                       IF Len(v.serializer_fields) < 10
                       THEN Len(v.serializer_fields) ELSE 10),
     per_page |-> DefaultPerPage,
     enable_search |-> FALSE,
     search_fields |-> <<>>,
     enable_filters |-> v.has_filterset_metadata,
     enable_sorting |-> TRUE,
     sorting_fields |-> IF v.has_ordering_fields THEN v.ordering_fields
                        ELSE <<"id">>]

\* get_list_configuration without the fallback to default_list_configuration.
GetListConfigurationNoFallback(v, config_name) ==
    IF config_name \notin DOMAIN v.list_configurations
    THEN IF DOMAIN v.list_configurations = {}
         THEN [exc |-> NoExc, config |-> GenerateDefaultListConfiguration(v)]
         ELSE [exc |-> "ValidationError", config |-> <<>>]
    ELSE [exc |-> NoExc, config |-> v.list_configurations[config_name]]

\* ListConfigurationMixin.get_list_configuration: the configuration, or the
\* ValidationError it raises.
GetListConfiguration(v, config_name) ==
    LET name == IF Truthy(config_name) THEN config_name
                ELSE default_list_configuration
    IN  IF name \notin DOMAIN v.list_configurations
        THEN IF DOMAIN v.list_configurations = {}
             THEN [exc |-> NoExc, config |-> GenerateDefaultListConfiguration(v)]
             ELSE [exc |-> "ValidationError", config |-> <<>>]
        ELSE [exc |-> NoExc, config |-> v.list_configurations[name]]

\* ------------------------------------------------------------ list backends
\* What get_list_data hands back: the response dict, or the exception raised.
ListData(d) == [exc |-> NoExc, data |-> d]
ListRaised(exc) == [exc |-> exc, data |-> <<>>]

\* The columns of the listed model.
ObjectColumns == {"id", "name", "price"}

RECURSIVE ById(_)
\* view.get_queryset(): the stored objects in primary-key order.
ById(objects) ==
    IF objects = {} THEN <<>>
    ELSE LET o == CHOOSE x \in objects : \A y \in objects : x.id <= y.id
         IN  <<o>> \o ById(objects \ {o})

RECURSIVE IsPrefix(_, _)
IsPrefix(p, s) ==
    \/ p = <<>>
    \/ s # <<>> /\ Head(p) = Head(s) /\ IsPrefix(Tail(p), Tail(s))

RECURSIVE Contains(_, _)
\* The icontains lookup on lower-case text.
Contains(s, term) ==
    \/ IsPrefix(term, s)
    \/ s # <<>> /\ Contains(Tail(s), term)

\* DjangoOrmListBackend._apply_search
ApplySearch(queryset, search_term, search_fields) ==
    IF ~Truthy(search_term) \/ search_fields = <<>> THEN queryset
    ELSE SelectSeq(queryset,
             LAMBDA o : \E i \in 1..Len(search_fields) :
                            Contains(o[search_fields[i]], search_term))

LetterRank(c) == CASE c = "a" -> 1 [] c = "b" -> 2 [] c = "c" -> 3

RECURSIVE TextLeq(_, _)
\* The order of two texts in a text column.
TextLeq(s, t) ==
    \/ s = <<>>
    \/ /\ t # <<>>
       /\ \/ LetterRank(Head(s)) < LetterRank(Head(t))
          \/ Head(s) = Head(t) /\ TextLeq(Tail(s), Tail(t))

\* x sorts before y, or equal to it, in the column named field.
ColumnLeq(field, x, y) == IF field = "name" THEN TextLeq(x, y) ELSE x <= y

RECURSIVE InsertOrdered(_, _, _, _)
\* o put behind the elements that sort before it or equal to it.
InsertOrdered(sorted, o, field, desc) ==
    IF sorted = <<>> THEN <<o>>
    ELSE IF (~desc /\ ColumnLeq(field, Head(sorted)[field], o[field]))
            \/ (desc /\ ColumnLeq(field, o[field], Head(sorted)[field]))
    THEN <<Head(sorted)>> \o InsertOrdered(Tail(sorted), o, field, desc)
    ELSE <<o>> \o sorted

RECURSIVE OrderBy(_, _, _)
\* queryset.order_by(field) or order_by("-" + field)
OrderBy(queryset, field, desc) ==
    IF queryset = <<>> THEN <<>>
    ELSE InsertOrdered(OrderBy(SubSeq(queryset, 1, Len(queryset) - 1), field, desc),
                       queryset[Len(queryset)], field, desc)

\* str.lstrip("-")
RECURSIVE LStripDash(_)
LStripDash(s) == IF s # <<>> /\ Head(s) = "-" THEN LStripDash(Tail(s)) ELSE s

\* queryset.order_by(ordering) for an ordering string: one leading "-" asks
\* for descending order; what is left has to name a column.
OrderByString(queryset, ordering) ==
    LET desc == ordering # <<>> /\ Head(ordering) = "-"
        name == IF desc THEN Tail(ordering) ELSE ordering
    IN  IF Len(name) = 1 /\ name[1] \in ObjectColumns
        THEN [exc |-> NoExc, queryset |-> OrderBy(queryset, name[1], desc)]
        ELSE [exc |-> "FieldError", queryset |-> <<>>]

\* An _apply_ordering that does not look at the allowed fields.
ApplyOrderingUnchecked(queryset, ordering, allowed_fields) ==
    OrderByString(queryset, ordering)

\* DjangoOrmListBackend._apply_ordering
ApplyOrdering(queryset, ordering, allowed_fields) ==
    LET field_name == LStripDash(ordering)
    IN  IF \E i \in 1..Len(allowed_fields) : <<allowed_fields[i]>> = field_name
        THEN OrderByString(queryset, ordering)
        ELSE [exc |-> NoExc, queryset |-> queryset]

\* Paginator.num_pages: ceil(max(1, count) / per_page), per_page # 0.
NumPages(count, per_page) ==
    LET hits == IF count < 1 THEN 1 ELSE count
    IN  0 - ((0 - hits) \div per_page)

\* Paginator(queryset, per_page).get_page(page).object_list
GetPageObjects(queryset, per_page, page) ==
    IF per_page = 0 THEN ListRaised("ZeroDivisionError")
    ELSE
      LET num_pages == NumPages(Len(queryset), per_page)
          number == IF page < 1 \/ page > num_pages THEN num_pages ELSE page
      IN  IF number < 1 \/ number > num_pages THEN ListRaised("EmptyPage")
          ELSE LET bottom == (number - 1) * per_page
                   top == IF bottom + per_page >= Len(queryset)
                          THEN Len(queryset) ELSE bottom + per_page
               IN  ListData(SubSeq(queryset, bottom + 1, top))

\* A response builder that rounds the number of pages down.
BuildListResponseRoundingDown(items, total_count, page, per_page, config) ==
    LET total_pages == total_count \div per_page
    IN  [data |-> items,
         pagination |->
            [current_page |-> page,
             per_page |-> per_page,
             total_pages |-> total_pages,
             total_count |-> total_count,
             has_next |-> page < total_pages,
             has_previous |-> page > 1,
             next_page |-> IF page < total_pages THEN <<page + 1>> ELSE None,
             previous_page |-> IF page > 1 THEN <<page - 1>> ELSE None],
         meta |->
            [config_name |-> <<"default">>,
             fields |-> Get(config, "fields", <<>>),
             search_enabled |-> Get(config, "enable_search", FALSE),
             filters_enabled |-> Get(config, "enable_filters", FALSE),
             sorting_enabled |-> Get(config, "enable_sorting", FALSE)]]

\* BaseListBackend.build_list_response
BuildListResponse(items, total_count, page, per_page, config) ==
    LET total_pages == (total_count + per_page - 1) \div per_page
    IN  [data |-> items,
         pagination |->
            [current_page |-> page,
             per_page |-> per_page,
             total_pages |-> total_pages,
             total_count |-> total_count,
             has_next |-> page < total_pages,
             has_previous |-> page > 1,
             next_page |-> IF page < total_pages THEN <<page + 1>> ELSE None,
             previous_page |-> IF page > 1 THEN <<page - 1>> ELSE None],
         meta |->
            [config_name |-> <<"default">>,
             fields |-> Get(config, "fields", <<>>),
             search_enabled |-> Get(config, "enable_search", FALSE),
             filters_enabled |-> Get(config, "enable_filters", FALSE),
             sorting_enabled |-> Get(config, "enable_sorting", FALSE)]]

\* DjangoOrmListBackend.get_list_data
DjangoOrmGetListData(v, config, page, per_page, search, ordering, objects) ==
    LET searched ==
            IF Truthy(search) /\ Get(config, "enable_search", FALSE)
            THEN ApplySearch(ById(objects), search, Get(config, "search_fields", <<>>))
            ELSE ById(objects)
        ordered ==
            IF Truthy(ordering) /\ Get(config, "enable_sorting", FALSE)
            THEN ApplyOrdering(searched, ordering, Get(config, "sorting_fields", <<>>))
            ELSE IF v.has_ordering THEN OrderByString(searched, v.ordering)
            ELSE [exc |-> NoExc, queryset |-> searched]
    IN  IF ordered.exc # NoExc THEN ListRaised(ordered.exc)
        ELSE LET page_obj == GetPageObjects(ordered.queryset, per_page, page)
             IN  IF page_obj.exc # NoExc THEN page_obj
                 ELSE ListData(BuildListResponse(page_obj.data, Len(ordered.queryset),
                                                 page, per_page, config))

\* WebSocketListBackend._get_websocket_group_name; config is a dict, so
\* getattr(config, 'name', 'default') is 'default'.
GetWebsocketGroupName(v) == <<"list_">> \o v.model_label \o <<"_", "default">>

\* WebSocketListBackend._get_websocket_info
GetWebsocketInfo(v) ==
    IF ~v.channels_installed
    THEN [available |-> FALSE, error |-> "Channels not installed"]
    ELSE IF ~v.channel_layer
    THEN [available |-> FALSE, error |-> "Channel layer not configured"]
    ELSE LET group_name == GetWebsocketGroupName(v)
         IN  [available |-> TRUE,
              group_name |-> group_name,
              url |-> <<"/ws/lists/">> \o group_name \o <<"/">>,
              events |-> v.realtime_events]

\* A push-update backend that answers with the first page whatever page is asked.
WebSocketGetListDataFirstPage(v, config, page, per_page, search, ordering, objects) ==
    LET initial_data ==
            DjangoOrmGetListData(v, config, 1, per_page, search, ordering, objects)
    IN  IF initial_data.exc # NoExc THEN initial_data
        ELSE ListData([data |-> initial_data.data.data,
                       pagination |-> initial_data.data.pagination,
                       meta |-> initial_data.data.meta,
                       websocket |-> [available |-> FALSE],
                       realtime_enabled |-> TRUE])

\* WebSocketListBackend.get_list_data
WebSocketGetListData(v, config, page, per_page, search, ordering, objects) ==
    LET initial_data ==
            DjangoOrmGetListData(v, config, page, per_page, search, ordering, objects)
    IN  IF initial_data.exc # NoExc THEN initial_data
        ELSE ListData([data |-> initial_data.data.data,
                       pagination |-> initial_data.data.pagination,
                       meta |-> initial_data.data.meta,
                       websocket |-> GetWebsocketInfo(v),
                       realtime_enabled |-> TRUE])

\* ElasticsearchListBackend._apply_elasticsearch_search: a multi_match query
\* with fuzziness AUTO.  A term of one or two letters has to equal a word of
\* the field, and a field of the documents here holds one word.
ApplyElasticsearchSearch(search_obj, search_term, search_fields) ==
    IF ~Truthy(search_term) \/ search_fields = <<>> THEN search_obj
    ELSE SelectSeq(search_obj,
             LAMBDA o : \E i \in 1..Len(search_fields) :
                            o[search_fields[i]] = search_term)

\* ElasticsearchListBackend._apply_elasticsearch_ordering: search_obj.sort on
\* the field the string names; the search engine rejects a field the
\* documents do not have when the search is executed.
ApplyElasticsearchOrdering(search_obj, ordering) ==
    LET desc == Head(ordering) = "-"
        field_name == IF desc THEN Tail(ordering) ELSE ordering
    IN  IF Len(field_name) = 1 /\ field_name[1] \in ObjectColumns
        THEN [exc |-> NoExc, queryset |-> OrderBy(search_obj, field_name[1], desc)]
        ELSE [exc |-> "RequestError", queryset |-> <<>>]

\* search_obj[start:stop].execute(): Search refuses a negative bound.
SearchSlice(hits, start, stop) ==
    IF start < 0 \/ stop < 0 THEN ListRaised("ValueError")
    ELSE ListData(SubSeq(hits, start + 1, IF stop > Len(hits) THEN Len(hits) ELSE stop))

\* ElasticsearchListBackend.get_list_data; the view has no filter backends.
ElasticsearchGetListData(v, config, page, per_page, search, ordering, objects) ==
    IF ~v.elasticsearch_installed THEN ListRaised("ImportError")
    ELSE IF ~v.is_document_viewset THEN ListRaised("TypeError")
    ELSE
      LET searched ==
              IF Truthy(search) /\ Get(config, "enable_search", FALSE)
              THEN ApplyElasticsearchSearch(ById(objects), search,
                                            Get(config, "search_fields", <<>>))
              ELSE ById(objects)
          ordered ==
              IF Truthy(ordering) /\ Get(config, "enable_sorting", FALSE)
              THEN ApplyElasticsearchOrdering(searched, ordering)
              ELSE [exc |-> NoExc, queryset |-> searched]
          offset == (page - 1) * per_page
          hits == SearchSlice(ordered.queryset, offset, offset + per_page)
      IN  IF hits.exc # NoExc THEN hits
          ELSE IF ordered.exc # NoExc THEN ListRaised(ordered.exc)
          ELSE IF per_page = 0 THEN ListRaised("ZeroDivisionError")
          ELSE ListData(BuildListResponse(hits.data, Len(searched), page, per_page,
                                          config))

\* DynamicListMixin.list_backends
list_backends == {"django_orm", "elasticsearch", "websocket"}

\* backend.get_list_data(...) for the backend get_list_backend() returned.
BackendGetListData(v, config, page, per_page, search, ordering, objects) ==
    CASE v.list_backend = "django_orm" ->
            DjangoOrmGetListData(v, config, page, per_page, search, ordering, objects)
      [] v.list_backend = "websocket" ->
            WebSocketGetListData(v, config, page, per_page, search, ordering, objects)
      [] v.list_backend = "elasticsearch" ->
            ElasticsearchGetListData(v, config, page, per_page, search, ordering, objects)

\* --------------------------------------------------------- DynamicListMixin
\* An HTTP response, or the exception that left the action.
Http(status, body) == [exc |-> NoExc, status |-> status, body |-> body]
Escaped(exc) == [exc |-> exc, status |-> 0, body |-> <<>>]

\* request.query_params.get(name, default)
Param(value, default) == IF value = None THEN default ELSE value

\* A cache key that leaves the user out.
GetListCacheKeyWithoutUser(v, config_name, user, worker, cache_params) ==
    [text |-> <<"dynamic_list", ":">> \o v.model_label \o <<":">> \o config_name
                \o <<":">>,
     params_hash |-> <<worker, cache_params>>]

\* DynamicListMixin.get_list_cache_key.  The key is the text
\* '<prefix>:<model>:<config_name>:<user_id>:' followed by params_hash, an
\* integer; two keys are the same string exactly when both parts agree.
\* hash() of a str differs from one worker process to the next, so the
\* worker is part of the hash; within a process it is taken to tell any two
\* parameter strings apart.
GetListCacheKey(v, config_name, user, worker, cache_params) ==
    [text |-> <<"dynamic_list", ":">> \o v.model_label \o <<":">> \o config_name
                \o <<":", user, ":">>,
     params_hash |-> <<worker, cache_params>>]

\* DynamicListMixin.get_cached_list_data: cache.get(key); a miss (None) when
\* caching is off or the cache holds no entry.
GetCachedListData(v, cch, cache_key) ==
    IF v.enable_list_caching /\ cache_key \in DOMAIN cch
    THEN [hit |-> TRUE, data |-> cch[cache_key].data]
    ELSE [hit |-> FALSE, data |-> <<>>]

\* DynamicListMixin.set_cached_list_data: cache.set(key, data, timeout).
SetCachedListData(v, cch, cache_key, data) ==
    IF v.enable_list_caching
    THEN [k \in DOMAIN cch \cup {cache_key} |->
            IF k = cache_key THEN [data |-> data, ttl |-> v.list_cache_timeout]
            ELSE cch[k]]
    ELSE cch

\* What an action leaves behind: its response and the cache.
Outcome(resp, cch, called) == [response |-> resp, cache |-> cch, backend_called |-> called]

\* DynamicListMixin.dynamic_list
DynamicListAction(v, query_params, user, worker, cch, objects) ==
    LET config_name == Param(query_params.config, default_list_configuration)
    IN  IF query_params.page # None /\ ~IsInt(query_params.page)
        THEN Outcome(Escaped("ValueError"), cch, FALSE)
        ELSE
          LET page == IF query_params.page = None THEN 1 ELSE ParseInt(query_params.page)
              search == Param(query_params.search, <<>>)
              ordering == Param(query_params.ordering, <<>>)
              got == GetListConfiguration(v, config_name)
          IN  IF got.exc # NoExc
              THEN Outcome(Http(400, [error |-> got.exc]), cch, FALSE)
              ELSE IF query_params.per_page # None /\ ~IsInt(query_params.per_page)
              THEN Outcome(Escaped("ValueError"), cch, FALSE)
              ELSE
                LET config == got.config
                    per_page == IF query_params.per_page = None
                                THEN Get(config, "per_page", DefaultPerPage)
                                ELSE ParseInt(query_params.per_page)
                    cache_key ==
                        GetListCacheKey(v, config_name, user, worker,
                            [page |-> page, per_page |-> per_page, search |-> search,
                             ordering |-> ordering, filters |-> query_params])
                    cached_data == GetCachedListData(v, cch, cache_key)
                IN  IF cached_data.hit
                    THEN Outcome(Http(200, cached_data.data), cch, FALSE)
                    ELSE IF v.list_backend \notin list_backends
                    THEN Outcome(Escaped("ImproperlyConfigured"), cch, FALSE)
                    ELSE
                      LET list_data ==
                            BackendGetListData(v, config, page, per_page, search,
                                               ordering, objects)
                      IN  IF list_data.exc # NoExc
                          THEN Outcome(Http(500, [error |-> "Error processing list data"]),
                                       cch, TRUE)
                          ELSE Outcome(Http(200, list_data.data),
                                       SetCachedListData(v, cch, cache_key, list_data.data),
                                       TRUE)

\* DynamicListMixin.list_metadata
ListMetadataAction(v, query_params) ==
    LET config_name == Param(query_params.config, default_list_configuration)
        got == GetListConfiguration(v, config_name)
    IN  IF got.exc # NoExc THEN Http(400, [error |-> got.exc])
        ELSE Http(200,
                [config_name |-> config_name,
                 fields |-> Get(got.config, "fields", <<>>),
                 per_page |-> Get(got.config, "per_page", DefaultPerPage),
                 search_enabled |-> Get(got.config, "enable_search", FALSE),
                 sorting_enabled |-> Get(got.config, "enable_sorting", FALSE),
                 sorting_fields |-> Get(got.config, "sorting_fields", <<>>),
                 filters_enabled |-> Get(got.config, "enable_filters", FALSE)])

\* --------------------------------------------------------- RealtimeListMixin
\* RealtimeListMixin.get_realtime_group_name
GetRealtimeGroupName(v, config_name) ==
    LET base_name == IF Truthy(v.realtime_group_name) THEN v.realtime_group_name
                     ELSE v.model_label
    IN  IF Truthy(config_name) THEN base_name \o <<"_">> \o config_name
        ELSE base_name

\* A subscribe action that takes the group of the default configuration
\* whatever configuration is asked for.
SubscribeRealtimeUpdatesDefaultGroup(v, data) ==
    IF ~v.enable_realtime
    THEN Http(400, [error |-> "Real-time updates are not enabled"])
    ELSE
      LET config_name == Param(data.config, default_list_configuration)
          events == IF data.events = None THEN v.realtime_events ELSE data.events
          got == GetListConfiguration(v, config_name)
      IN  IF got.exc # NoExc THEN Http(400, [error |-> got.exc])
          ELSE LET group_name == GetRealtimeGroupName(v, default_list_configuration)
               IN  Http(200,
                       [group_name |-> group_name,
                        config_name |-> config_name,
                        events |-> events,
                        websocket_url |-> <<"/ws/lists/">> \o group_name \o <<"/">>])

\* RealtimeListMixin.subscribe_realtime_updates
SubscribeRealtimeUpdatesAction(v, data) ==
    IF ~v.enable_realtime
    THEN Http(400, [error |-> "Real-time updates are not enabled"])
    ELSE
      LET config_name == Param(data.config, default_list_configuration)
          events == IF data.events = None THEN v.realtime_events ELSE data.events
          got == GetListConfiguration(v, config_name)
      IN  IF got.exc # NoExc THEN Http(400, [error |-> got.exc])
          ELSE LET group_name == GetRealtimeGroupName(v, config_name)
               IN  Http(200,
                       [group_name |-> group_name,
                        config_name |-> config_name,
                        events |-> events,
                        websocket_url |-> <<"/ws/lists/">> \o group_name \o <<"/">>])

\* RealtimeListMixin.send_realtime_update(event_type, instance): the
\* messages handed to the channel layer.
SendRealtimeUpdate(v, event_type, instance) ==
    IF ~v.enable_realtime \/ event_type \notin v.realtime_events THEN {}
    ELSE IF ~v.channels_installed \/ ~v.channel_layer THEN {}
    ELSE {[group |-> GetRealtimeGroupName(v, None),
           type |-> "list_update",
           event_type |-> event_type,
           data |-> instance,
           config |-> None]}

\* ------------------------------------------------- inputs of the list views
\* The configurations of the class docstring, with small page sizes; the
\* second leaves the optional keys out.
CompactConfiguration ==
    [fields |-> <<"id", "name", "price">>,
     per_page |-> 2,
     enable_search |-> TRUE,
     search_fields |-> <<"name">>,
     enable_filters |-> TRUE,
     enable_sorting |-> TRUE,
     sorting_fields |-> <<"name", "price">>]

DetailedConfiguration ==
    [fields |-> <<"id", "name", "price", "description">>,
     search_fields |-> <<"name">>]

ListConfigurationsChoices ==
    {<<>>,
     [n \in {<<"compact">>, <<"detailed">>} |->
        IF n = <<"compact">> THEN CompactConfiguration ELSE DetailedConfiguration],
     [n \in {<<"default">>, <<"compact">>} |->
        IF n = <<"compact">> THEN CompactConfiguration ELSE DetailedConfiguration]}

\* The scaled list_cache_timeout of the views.
ListCacheTimeout == 2

ListView(list_configurations, list_backend, enable_list_caching, enable_realtime, realtime_group_name, has_ordering) ==
    [list_configurations |-> list_configurations,
     list_backend |-> list_backend,
     enable_list_caching |-> enable_list_caching,
     list_cache_timeout |-> ListCacheTimeout,
     enable_realtime |-> enable_realtime,
     realtime_group_name |-> realtime_group_name,
     realtime_events |-> {"create", "update", "delete"},
     model_label |-> <<"shop.product">>,
     channels_installed |-> TRUE,
     channel_layer |-> TRUE,
     elasticsearch_installed |-> FALSE,
     is_document_viewset |-> FALSE,
     has_ordering |-> has_ordering,
     ordering |-> <<"-", "id">>,
     has_ordering_fields |-> FALSE,
     ordering_fields |-> <<>>,
     has_filterset_metadata |-> FALSE,
     serializer_fields |-> <<"id", "name", "price">>]

ListViews ==
    {ListView(lc, b, FALSE, rt, g, o) :
        lc \in ListConfigurationsChoices,
        b \in list_backends \cup {"custom"},
        rt \in BOOLEAN,
        g \in {None, <<"products">>},
        o \in BOOLEAN}

ListParams(config, page, per_page, search, ordering) ==
    [config |-> config, page |-> page, per_page |-> per_page, search |-> search,
     ordering |-> ordering]

ConfigParams == {None, <<>>, <<"compact">>, <<"detailed">>, <<"missing">>}

ListRequests ==
    {ListParams(c, p, pp, se, o) :
        c \in ConfigParams,
        p \in {None, <<>>, <<"2">>, <<"0">>, <<"-", "1">>, <<"3">>, <<"abc">>},
        pp \in {None, <<"1">>, <<"0">>, <<"-", "2">>, <<"ten">>},
        se \in {None, <<"b">>},
        o \in {None, <<"-", "price">>, <<"id">>}}

Product(id, name, price) == [id |-> id, name |-> name, price |-> price]

Products ==
    {Product(1, <<"a", "b">>, 20), Product(2, <<"b", "c">>, 10),
     Product(3, <<"c", "a">>, 20)}

\* ------------------------------------------- one request to a list action
\* A request has arrived at one of the actions of a list view.
InitLists ==
    /\ pc = "received"
    /\ op \in {"dynamic_list", "list_metadata", "subscribe_realtime_updates"}
    /\ view \in ListViews
    /\ \/ /\ op = "dynamic_list"
          /\ request \in ListRequests
       \/ /\ op = "list_metadata"
          /\ request \in {ListParams(c, None, None, None, None) : c \in ConfigParams}
       \/ /\ op = "subscribe_realtime_updates"
          /\ request \in {[config |-> c, events |-> e] :
                            c \in ConfigParams, e \in {None, <<"create">>}}
    /\ response = Escaped(NoExc)
    /\ cache = EmptyCache
    /\ db = Products
    /\ steps = 0
    /\ backend_called = FALSE
    /\ filterset_metadata = NotConfigured

\* dynamic_list answers the request of an anonymous user.
DynamicListOnce ==
    /\ pc = "received"
    /\ op = "dynamic_list"
    /\ LET out == DynamicListAction(view, request, "anon", 1, cache, db)
       IN  /\ response' = out.response
           /\ cache' = out.cache
           /\ backend_called' = out.backend_called
    /\ pc' = "done"
    /\ UNCHANGED <<op, request, view, db, steps, filterset_metadata>>

\* list_metadata answers the request.
ListMetadataOnce ==
    /\ pc = "received"
    /\ op = "list_metadata"
    /\ response' = ListMetadataAction(view, request)
    /\ pc' = "done"
    /\ UNCHANGED <<op, request, view, cache, db, steps, backend_called, filterset_metadata>>

\* subscribe_realtime_updates answers the request.
SubscribeRealtimeUpdatesOnce ==
    /\ pc = "received"
    /\ op = "subscribe_realtime_updates"
    /\ response' = SubscribeRealtimeUpdatesAction(view, request)
    /\ pc' = "done"
    /\ UNCHANGED <<op, request, view, cache, db, steps, backend_called, filterset_metadata>>

NextLists == DynamicListOnce \/ ListMetadataOnce \/ SubscribeRealtimeUpdatesOnce

SpecLists == InitLists /\ [][NextLists]_vars

\* ----------------------------------------------- claims on the list actions
\* C1: for every combination of query parameters dynamic_list ends by
\* returning a response with status 200, 400 or 500; no exception escapes.
C1_DynamicListAlwaysResponds ==
    (pc = "done" /\ op = "dynamic_list" /\ view.list_backend \in list_backends)
    => response.exc = NoExc /\ response.status \in {200, 400, 500}

\* The name get_list_configuration looks up for the request's config value.
C8_Name ==
    IF request.config = None \/ request.config = <<>> THEN <<"default">>
    ELSE request.config

C8_Declared == C8_Name \in DOMAIN view.list_configurations
C8_NoneDeclared == DOMAIN view.list_configurations = {}

\* The request reaches get_list_configuration.
C8_Reached ==
    CASE op = "dynamic_list" -> request.page = None \/ IsInt(request.page)
      [] op = "subscribe_realtime_updates" -> view.enable_realtime
      [] OTHER -> TRUE

\* C8: get_list_configuration uses default_list_configuration for a missing
\* or empty name, returns list_configurations[name] for a declared name,
\* raises ValidationError for an undeclared name when configurations are
\* declared (answered by dynamic_list, list_metadata and
\* subscribe_realtime_updates with HTTP 400 and an 'error' entry), and
\* returns the generated default configuration for any name when none is
\* declared.
C8_GetListConfiguration ==
    (pc = "done" /\ op \in {"dynamic_list", "list_metadata", "subscribe_realtime_updates"}
        /\ C8_Reached)
    => /\ (~C8_Declared /\ ~C8_NoneDeclared)
            <=> (response.exc = NoExc /\ response.status = 400)
       /\ response.exc = NoExc /\ response.status = 400
            => "error" \in DOMAIN response.body
       /\ (op = "list_metadata" /\ C8_Declared)
            => /\ response.status = 200
               /\ response.body.fields = view.list_configurations[C8_Name].fields
               /\ response.body.per_page =
                    (IF C8_Name = <<"compact">> THEN 2 ELSE 25)
       /\ (op = "list_metadata" /\ C8_NoneDeclared)
            => /\ response.status = 200
               /\ response.body.fields = <<"id", "name", "price">>
               /\ response.body.per_page = 25
               /\ ~response.body.search_enabled
               /\ response.body.sorting_enabled
               /\ response.body.sorting_fields = <<"id">>

\* An undeclared name, asked of a view that declares configurations, has
\* been answered with 400 by dynamic_list.
C8_Witness ==
    /\ pc = "done"
    /\ op = "dynamic_list"
    /\ request.config = <<"missing">>
    /\ DOMAIN view.list_configurations # {}
    /\ response.status = 400
    /\ "error" \in DOMAIN response.body

\* ------------------------------------------- claims on the list backends
\* What dynamic_list answers to the same request on the same view when the
\* view's backend is the relational one.
C13_Orm ==
    DynamicListAction([view EXCEPT !.list_backend = "django_orm"],
                      request, "anon", 1, EmptyCache, db).response

\* C13: for the same view, request, configuration, page, per_page, search
\* and ordering the push-update backend returns the 'data', 'pagination' and
\* 'meta' entries of the relational backend unchanged and adds exactly the
\* entries 'websocket' and 'realtime_enabled'.
C13_WebSocketExtendsOrm ==
    (pc = "done" /\ op = "dynamic_list" /\ view.list_backend = "websocket"
        /\ C13_Orm.exc = NoExc /\ C13_Orm.status = 200)
    => /\ response.exc = NoExc /\ response.status = 200
       /\ DOMAIN C13_Orm.body = {"data", "pagination", "meta"}
       /\ DOMAIN response.body =
            {"data", "pagination", "meta", "websocket", "realtime_enabled"}
       /\ \A k \in DOMAIN C13_Orm.body : response.body[k] = C13_Orm.body[k]

\* The push-update backend has answered a request for the second page of a
\* list cut into pages of one item.
C13_Witness ==
    /\ pc = "done" /\ op = "dynamic_list" /\ view.list_backend = "websocket"
    /\ response.exc = NoExc /\ response.status = 200
    /\ request.page = <<"2">>
    /\ request.per_page = <<"1">>
    /\ Len(response.body.data) = 1
    /\ response.body.websocket.available

\* The least n with n * per_page >= total_count.
C14_Ceiling(total_count, per_page) ==
    CHOOSE n \in 0..total_count :
        /\ n * per_page >= total_count
        /\ \A m \in 0..total_count : m * per_page >= total_count => n <= m

\* C14: for total_count >= 0 and per_page >= 1 build_list_response reports
\* total_pages = ceiling(total_count / per_page), has_next exactly when
\* page < total_pages, next_page = page + 1 when has_next and null
\* otherwise, has_previous exactly when page > 1, previous_page = page - 1
\* when has_previous and null otherwise.
C14_PaginationNumbers ==
    (pc = "done" /\ op = "dynamic_list" /\ response.exc = NoExc
        /\ response.status = 200
        /\ response.body.pagination.total_count >= 0
        /\ response.body.pagination.per_page >= 1)
    => LET p == response.body.pagination
       IN  /\ p.total_pages = C14_Ceiling(p.total_count, p.per_page)
           /\ p.has_next <=> p.current_page < p.total_pages
           /\ p.next_page = (IF p.has_next THEN <<p.current_page + 1>> ELSE None)
           /\ p.has_previous <=> p.current_page > 1
           /\ p.previous_page = (IF p.has_previous THEN <<p.current_page - 1>> ELSE None)

\* A page in the middle of three has been built: it has a next and a
\* previous page, and the last page of the count is not full.
C14_Witness ==
    /\ pc = "done" /\ op = "dynamic_list" /\ response.exc = NoExc
    /\ response.status = 200
    /\ response.body.pagination.total_count = 3
    /\ response.body.pagination.per_page = 2
    /\ response.body.pagination.total_pages = 2
    /\ response.body.pagination.has_next
    /\ ~response.body.pagination.has_previous


\* ---------------------------------------- claims on the realtime actions
\* The configuration name subscribe_realtime_updates works with.
C16_ConfigName == IF request.config = None THEN <<"default">> ELSE request.config

\* The group of a configuration name: the view's realtime_group_name, or the
\* model label, followed by '_' and the name when a name is given.
C16_Group ==
    LET base == IF view.realtime_group_name = None THEN view.model_label
                ELSE view.realtime_group_name
    IN  IF C16_ConfigName = <<>> THEN base ELSE base \o <<"_">> \o C16_ConfigName

\* C16: subscribe_realtime_updates returns HTTP 400 when enable_realtime is
\* false or when the requested configuration does not exist; otherwise it
\* returns the group name for the configuration, the configuration name, the
\* requested events (realtime_events by default) and websocket_url
\* '/ws/lists/<group_name>/' for that same group name.
C16_Subscribe ==
    (pc = "done" /\ op = "subscribe_realtime_updates")
    => /\ response.exc = NoExc
       /\ IF ~view.enable_realtime \/ (~C8_Declared /\ ~C8_NoneDeclared)
          THEN response.status = 400 /\ "error" \in DOMAIN response.body
          ELSE /\ response.status = 200
               /\ response.body.group_name = C16_Group
               /\ response.body.config_name = C16_ConfigName
               /\ response.body.events =
                    (IF request.events = None THEN {"create", "update", "delete"}
                     ELSE request.events)
               /\ response.body.websocket_url =
                    <<"/ws/lists/">> \o response.body.group_name \o <<"/">>

\* A subscription to a declared configuration of a view with its own group
\* name has been answered.
C16_Witness ==
    /\ pc = "done" /\ op = "subscribe_realtime_updates"
    /\ view.enable_realtime
    /\ request.config = <<"compact">>
    /\ request.events = <<"create">>
    /\ response.status = 200
    /\ response.body.group_name = <<"products", "_", "compact">>
    /\ response.body.websocket_url = <<"/ws/lists/", "products", "_", "compact", "/">>

\* ----------------------------------------------- claims on the ordering
\* The configuration the request selects.
C22_Config == GetListConfiguration(view, Param(request.config, default_list_configuration)).config

\* The objects that are left after the search of the request.
C22_Searched ==
    IF Truthy(Param(request.search, <<>>)) /\ Get(C22_Config, "enable_search", FALSE)
        /\ Get(C22_Config, "search_fields", <<>>) # <<>>
    THEN {o \in db : \E i \in 1..Len(C22_Config.search_fields) :
                        Contains(o[C22_Config.search_fields[i]], request.search)}
    ELSE db

\* x comes before y when ordered by the column, ties by id.
C22_Before(x, y, field, desc) ==
    IF x[field] = y[field] THEN x.id < y.id
    ELSE IF desc THEN ColumnLeq(field, y[field], x[field])
    ELSE ColumnLeq(field, x[field], y[field])

\* The objects in the order of an ordering string ('-' for descending).
C22_Ordered(objects, ordering) ==
    LET desc == Head(ordering) = "-"
        field == ordering[Len(ordering)]
    IN  CHOOSE l \in [1..Cardinality(objects) -> objects] :
            \A i, j \in 1..Cardinality(objects) :
                i < j => C22_Before(l[i], l[j], field, desc)

\* The order the claim gives the result of the request.
C22_Expected ==
    IF Truthy(Param(request.ordering, <<>>)) /\ Get(C22_Config, "enable_sorting", FALSE)
    THEN IF \E i \in 1..Len(Get(C22_Config, "sorting_fields", <<>>)) :
                C22_Config.sorting_fields[i] = request.ordering[Len(request.ordering)]
         THEN C22_Ordered(C22_Searched, request.ordering)
         ELSE C22_Ordered(C22_Searched, <<"id">>)
    ELSE IF view.has_ordering THEN C22_Ordered(C22_Searched, view.ordering)
    ELSE C22_Ordered(C22_Searched, <<"id">>)

\* The first page of a list of the relational backend has been returned.
C22_FirstPage ==
    /\ pc = "done" /\ op = "dynamic_list"
    /\ view.list_backend = "django_orm"
    /\ request.page = None
    /\ response.exc = NoExc /\ response.status = 200

C24_PageReturned ==
    /\ pc = "done" /\ op = "dynamic_list"
    /\ view.list_backend = "django_orm"
    /\ response.exc = NoExc /\ response.status = 200
    /\ response.body.pagination.per_page >= 1

\* The positions of the filtered and ordered result that make up a page.
C24_Positions(current_page, per_page) ==
    {k \in 1..Cardinality(C22_Searched) :
        (current_page - 1) * per_page + 1 <= k /\ k <= current_page * per_page}

\* C24: for every requested page number, 0, a negative number and a number
\* beyond the last page included, the items in 'data' are the items of the
\* page reported as pagination.current_page: positions
\* (current_page - 1) * per_page + 1 to current_page * per_page of the
\* filtered and ordered result.
C24_DataIsReportedPage ==
    C24_PageReturned =>
        LET current_page == response.body.pagination.current_page
            per_page == response.body.pagination.per_page
            positions == C24_Positions(current_page, per_page)
        IN  /\ Len(response.body.data) = Cardinality(positions)
            /\ \A i \in 1..Len(response.body.data) :
                    /\ (current_page - 1) * per_page + i \in positions
                    /\ response.body.data[i]
                         = C22_Expected[(current_page - 1) * per_page + i]

\* ------------------------------------------------ claims on the meta entry
\* The name of the configuration the request selects.
C25_SelectedName ==
    IF request.config # None /\ Truthy(request.config) THEN request.config
    ELSE default_list_configuration

\* dynamic_list has answered with a list.
C25_ListReturned ==
    /\ pc = "done" /\ op = "dynamic_list"
    /\ response.exc = NoExc /\ response.status = 200

\* The 'meta.fields' entry of a list response is the 'fields' of the
\* configuration the request selected.
C25_MetaFields ==
    C25_ListReturned =>
        response.body.meta.fields = Get(C22_Config, "fields", <<>>)

\* C25: the 'meta.config_name' entry of a list response is the name of the
\* configuration the request selected (the 'config' query parameter, or
\* default_list_configuration when absent), and 'meta.fields' is that
\* configuration's 'fields'.
C25_MetaNamesConfiguration ==
    C25_ListReturned =>
        /\ response.body.meta.config_name = C25_SelectedName
        /\ response.body.meta.fields = Get(C22_Config, "fields", <<>>)

\* ------------------------------------ one request to a document list view
\* Views that inherit from DocumentViewSet and list through the search engine.
DocumentViews ==
    {[ListView(lc, "elasticsearch", FALSE, FALSE, None, o)
        EXCEPT !.elasticsearch_installed = TRUE, !.is_document_viewset = TRUE] :
        lc \in ListConfigurationsChoices, o \in BOOLEAN}

\* A request has arrived at dynamic_list of a document view.
InitDocuments ==
    /\ pc = "received"
    /\ op = "dynamic_list"
    /\ view \in DocumentViews
    /\ request \in ListRequests
    /\ response = Escaped(NoExc)
    /\ cache = EmptyCache
    /\ db = Products
    /\ steps = 0
    /\ backend_called = FALSE
    /\ filterset_metadata = NotConfigured

NextDocuments == DynamicListOnce

SpecDocuments == InitDocuments /\ [][NextDocuments]_vars

\* The answer dynamic_list gives to the request without its 'ordering'.
C23_WithoutOrdering ==
    DynamicListAction(view, [request EXCEPT !.ordering = None], "anon", 1,
                      EmptyCache, db).response

\* The request asked the search-engine backend for an order by a field that
\* is not in the sorting_fields of the selected configuration, and was answered.
C23_UnlistedOrdering ==
    /\ pc = "done"
    /\ op = "dynamic_list"
    /\ view.list_backend = "elasticsearch"
    /\ response.exc = NoExc
    /\ response.status = 200
    /\ Truthy(request.ordering)
    /\ LET allowed_fields == Get(C22_Config, "sorting_fields", <<>>)
       IN  \A i \in 1..Len(allowed_fields) :
               <<allowed_fields[i]>> # LStripDash(request.ordering)

\* C23: ElasticsearchListBackend follows the ordering policy of
\* DjangoOrmListBackend: an 'ordering' parameter that names a field outside
\* the configuration's sorting_fields does not change the order of the
\* results, so the answer lists the items the same request without the
\* parameter lists, in the same order.
C23_UnlistedOrderingIgnored ==
    C23_UnlistedOrdering =>
        /\ C23_WithoutOrdering.exc = NoExc
        /\ C23_WithoutOrdering.status = 200
        /\ response.body.data = C23_WithoutOrdering.body.data

\* ------------------------------------------ a list view serving requests
\* The operations one run of the server goes through.
MaxSteps == 3

Users == {"anon", "A", "B"}
Workers == {1, 2}
ObjectIds == {1, 2}

ServedViews ==
    {ListView(<<>>, b, c, TRUE, None, FALSE) :
        b \in {"django_orm", "websocket"}, c \in BOOLEAN}

ServedRequests ==
    {ListParams(None, None, pp, None, None) : pp \in {None, <<"0">>}}

InitServed ==
    /\ pc = "serving"
    /\ op = "start"
    /\ request = [params |-> ListParams(None, None, None, None, None),
                  user |-> "anon", worker |-> 1]
    /\ view \in ServedViews
    /\ response = Escaped(NoExc)
    /\ cache = EmptyCache
    /\ db = {Product(1, <<"a", "b">>, 10)}
    /\ steps = 0
    /\ backend_called = FALSE
    /\ filterset_metadata = NotConfigured

\* A dynamic_list that drops the cached lists when the backend fails.
DynamicListForgettingOnError ==
    \E query_params \in ServedRequests, user \in Users, worker \in Workers :
        /\ steps < MaxSteps
        /\ LET out == DynamicListAction(view, query_params, user, worker, cache, db)
           IN  /\ response' = out.response
               /\ cache' = IF out.response.status = 500 THEN EmptyCache ELSE out.cache
               /\ backend_called' = out.backend_called
        /\ op' = "dynamic_list"
        /\ request' = [params |-> query_params, user |-> user, worker |-> worker]
        /\ steps' = steps + 1
        /\ UNCHANGED <<pc, view, db, filterset_metadata>>

\* A user's GET of dynamic_list, handled by one of the worker processes.
DynamicList ==
    \E query_params \in ServedRequests, user \in Users, worker \in Workers :
        /\ steps < MaxSteps
        /\ LET out == DynamicListAction(view, query_params, user, worker, cache, db)
           IN  /\ response' = out.response
               /\ cache' = out.cache
               /\ backend_called' = out.backend_called
        /\ op' = "dynamic_list"
        /\ request' = [params |-> query_params, user |-> user, worker |-> worker]
        /\ steps' = steps + 1
        /\ UNCHANGED <<pc, view, db, filterset_metadata>>

\* What a write operation leaves in response: the messages it sent.
Sent(messages) == [exc |-> NoExc, status |-> 0, body |-> messages]

\* RealtimeListMixin.perform_create
PerformCreate ==
    \E id \in ObjectIds :
        /\ steps < MaxSteps
        /\ \A o \in db : o.id # id
        /\ LET instance == Product(id, <<"b", "c">>, 10)
           IN  /\ db' = db \cup {instance}
               /\ response' = Sent(SendRealtimeUpdate(view, "create", instance))
        /\ op' = "perform_create"
        /\ steps' = steps + 1
        /\ backend_called' = FALSE
        /\ UNCHANGED <<pc, request, view, cache, filterset_metadata>>

\* perform_update with the cache cleared after the save.
PerformUpdateInvalidating ==
    \E o \in db :
        /\ steps < MaxSteps
        /\ o.price = 10
        /\ LET instance == Product(o.id, o.name, 20)
           IN  /\ db' = (db \ {o}) \cup {instance}
               /\ response' = Sent(SendRealtimeUpdate(view, "update", instance))
        /\ cache' = EmptyCache
        /\ op' = "perform_update"
        /\ steps' = steps + 1
        /\ backend_called' = FALSE
        /\ UNCHANGED <<pc, request, view, filterset_metadata>>

\* RealtimeListMixin.perform_update
PerformUpdate ==
    \E o \in db :
        /\ steps < MaxSteps
        /\ o.price = 10
        /\ LET instance == Product(o.id, o.name, 20)
           IN  /\ db' = (db \ {o}) \cup {instance}
               /\ response' = Sent(SendRealtimeUpdate(view, "update", instance))
        /\ op' = "perform_update"
        /\ steps' = steps + 1
        /\ backend_called' = FALSE
        /\ UNCHANGED <<pc, request, view, cache, filterset_metadata>>

\* RealtimeListMixin.perform_destroy
PerformDestroy ==
    \E o \in db :
        /\ steps < MaxSteps
        /\ response' = Sent(SendRealtimeUpdate(view, "delete", o))
        /\ db' = db \ {o}
        /\ op' = "perform_destroy"
        /\ steps' = steps + 1
        /\ backend_called' = FALSE
        /\ UNCHANGED <<pc, request, view, cache, filterset_metadata>>

\* A second passes in the cache service: every entry is a second older, and
\* an entry whose timeout has run out is gone.
CacheTick ==
    /\ DOMAIN cache # {}
    /\ cache' = [k \in {x \in DOMAIN cache : cache[x].ttl > 1} |->
                    [data |-> cache[k].data, ttl |-> cache[k].ttl - 1]]
    /\ op' = "tick"
    /\ backend_called' = FALSE
    /\ UNCHANGED <<pc, request, view, response, db, steps, filterset_metadata>>

NextServed == DynamicList \/ PerformCreate \/ PerformUpdate \/ PerformDestroy \/ CacheTick

SpecServed == InitServed /\ [][NextServed]_vars

\* C9: with caching on, no cache entry is deleted or overwritten by
\* perform_create, perform_update or perform_destroy; an entry goes away only
\* by expiring when its list_cache_timeout seconds have passed, and a
\* dynamic_list request whose key is in the cache is answered with the data
\* stored under that key, whatever happened to the objects since.
C9_Key(req) ==
    GetListCacheKey(view, default_list_configuration, req.user, req.worker,
        [page |-> 1,
         per_page |-> IF req.params.per_page = None THEN DefaultPerPage
                      ELSE ParseInt(req.params.per_page),
         search |-> <<>>, ordering |-> <<>>, filters |-> req.params])

C9_Step ==
    /\ op' \in {"perform_create", "perform_update", "perform_destroy"}
        => cache' = cache
    /\ \A k \in DOMAIN cache :
        IF k \in DOMAIN cache'
        THEN cache'[k].data = cache[k].data
        ELSE op' = "tick" /\ cache[k].ttl = 1
    /\ \A k \in DOMAIN cache' \ DOMAIN cache :
        op' = "dynamic_list" /\ cache'[k].ttl = view.list_cache_timeout
    /\ (op' = "dynamic_list" /\ view.enable_list_caching
            /\ C9_Key(request') \in DOMAIN cache)
        => /\ response'.exc = NoExc
           /\ response'.status = 200
           /\ response'.body = cache[C9_Key(request')].data

C9_CacheOnlyExpires == [][C9_Step]_vars

\* dynamic_list has answered from the cache with a list that is no longer
\* the list of the stored objects.
C9_Witness ==
    /\ op = "dynamic_list"
    /\ view.enable_list_caching
    /\ ~backend_called
    /\ response.status = 200
    /\ response.body.data # ById(db)
    /\ C9_Key(request) \in DOMAIN cache

\* C17: every message perform_create, perform_update or perform_destroy
\* sends goes to a group name that subscribe_realtime_updates returns for
\* the configuration a client subscribed to, and to the group name the
\* push-update backend advertises in its 'websocket' entry.
C17_GroupNamesAgree ==
    (op \in {"perform_create", "perform_update", "perform_destroy"})
    => \A msg \in response.body :
        /\ \E c \in ConfigParams :
            LET sub == SubscribeRealtimeUpdatesAction(view,
                            [config |-> c, events |-> None])
            IN  sub.status = 200 /\ sub.body.group_name = msg.group
        /\ GetWebsocketInfo(view).group_name = msg.group


\* The cache keys under which a backend result for the same user, the same
\* configuration name and the same query parameters is stored.
C19_Stored(req) ==
    {k \in DOMAIN cache :
        \E worker \in Workers : k = C9_Key([req EXCEPT !.worker = worker])}

C19_Step ==
    /\ (op' = "dynamic_list" /\ view.enable_list_caching /\ C19_Stored(request') # {})
        => /\ response'.exc = NoExc
           /\ response'.status = 200
           /\ ~backend_called'
           /\ \E k \in C19_Stored(request') : response'.body = cache[k].data
    /\ ~view.enable_list_caching
        => /\ cache' = cache
           /\ (op' = "dynamic_list" /\ response'.exc = NoExc)
                => backend_called'

\* C19: with enable_list_caching on, after dynamic_list has answered a
\* request with a backend result, a later request by the same user with the
\* same configuration name and query parameters, made before
\* list_cache_timeout elapses, is answered with the stored data without
\* calling get_list_data again; with caching off the cache is never read
\* and never written.
C19_CachedAnswer == [][C19_Step]_vars

C20_Step ==
    /\ (op' = "dynamic_list" /\ backend_called' /\ request'.params.per_page = <<"0">>)
        => response'.exc = NoExc /\ response'.status = 500
    /\ (op' = "dynamic_list" /\ response'.exc = NoExc /\ response'.status = 500)
        => /\ backend_called'
           /\ "error" \in DOMAIN response'.body
           /\ cache' = cache

\* C20: when the backend's get_list_data raises during dynamic_list the
\* action returns HTTP 500 with an 'error' entry and the cache holds the
\* same entries after the failed request as before it.
C20_FailureLeavesCache == [][C20_Step]_vars

\* A request has failed in the backend while the cache held a list.
C20_Witness ==
    /\ op = "dynamic_list"
    /\ view.enable_list_caching
    /\ response.status = 500
    /\ backend_called
    /\ DOMAIN cache # {}


\* ------------------------------------- a cached list view of several users
\* The configuration names of the requests; a name may hold the separator
\* of the cache key.
TenantConfigs == {None, <<"default">>, <<"default", ":", "A">>}

TenantRequests == {ListParams(c, None, None, None, None) : c \in TenantConfigs}

TenantViews ==
    {ListView(<<>>, b, TRUE, TRUE, None, FALSE) : b \in {"django_orm", "websocket"}}

\* The id of the one object view.get_queryset() gives a user.
OwnerId(user) == CASE user = "A" -> 1 [] user = "B" -> 2 [] OTHER -> 3

InitTenants ==
    /\ pc = "serving"
    /\ op = "start"
    /\ request = [params |-> ListParams(None, None, None, None, None),
                  user |-> "anon", worker |-> 1]
    /\ view \in TenantViews
    /\ response = Escaped(NoExc)
    /\ cache = EmptyCache
    /\ db = {Product(1, <<"a">>, 10), Product(2, <<"b">>, 10), Product(3, <<"c">>, 10)}
    /\ steps = 0
    /\ backend_called = FALSE
    /\ filterset_metadata = NotConfigured

\* A user's GET of dynamic_list on a view whose get_queryset() gives each
\* user the user's own objects.
DynamicListOfUser ==
    \E query_params \in TenantRequests, user \in Users :
        /\ steps < MaxSteps
        /\ LET out == DynamicListAction(view, query_params, user, 1, cache,
                                        {o \in db : o.id = OwnerId(user)})
           IN  /\ response' = out.response
               /\ cache' = out.cache
               /\ backend_called' = out.backend_called
        /\ op' = "dynamic_list"
        /\ request' = [params |-> query_params, user |-> user, worker |-> 1]
        /\ steps' = steps + 1
        /\ UNCHANGED <<pc, view, db, filterset_metadata>>

NextTenants == DynamicListOfUser \/ CacheTick

SpecTenants == InitTenants /\ [][NextTenants]_vars

\* The cache key of a request.
C21_Key(req) ==
    GetListCacheKey(view, Param(req.params.config, default_list_configuration),
        req.user, req.worker,
        [page |-> 1, per_page |-> DefaultPerPage, search |-> <<>>,
         ordering |-> <<>>, filters |-> req.params])

C21_Step ==
    (op' = "dynamic_list" /\ response'.exc = NoExc /\ response'.status = 200)
    => /\ \A i \in 1..Len(response'.body.data) :
            response'.body.data[i].id = OwnerId(request'.user)
       /\ ~backend_called'
            => /\ C21_Key(request') \in DOMAIN cache
               /\ \A user \in Users \ {request'.user}, q \in TenantRequests :
                    C21_Key([params |-> q, user |-> user, worker |-> 1])
                        # C21_Key(request')

\* C21: a list response cached for a dynamic_list request of an
\* authenticated user A is never returned to a dynamic_list request of
\* another authenticated user B or of an anonymous user, whatever
\* configuration name and query parameters the second request carries.
C21_CacheKeptPerUser == [][C21_Step]_vars

\* User B has been answered from the cache while the cache held the list
\* stored for the same request of user A.
C21_Witness ==
    /\ op = "dynamic_list"
    /\ request.user = "B"
    /\ response.status = 200
    /\ ~backend_called
    /\ C21_Key([request EXCEPT !.user = "A"]) \in DOMAIN cache
    /\ response.body.data # cache[C21_Key([request EXCEPT !.user = "A"])].data.data


\* ==================================================== DynamicFiltersMixin ==
\* gettext(message) in the language that is active for the request.
Languages == {"en", "fr"}
Gettext(message, lang) ==
    IF lang = "fr" /\ message = <<"Creation", " ", "date">>
    THEN <<"Date", " ", "de", " ", "creation">>
    ELSE message

\* str.replace("_", " ")
ReplaceUnderscores(s) == [i \in 1..Len(s) |-> IF s[i] = "_" THEN " " ELSE s[i]]

\* The word with its first letter in upper case.
UpperFirst(word) ==
    CASE word = "client" -> "Client"
      [] word = "is" -> "Is"
      [] OTHER -> word

\* str.capitalize() of lower-case text.
Capitalize(s) == IF s = <<>> THEN s ELSE <<UpperFirst(Head(s))>> \o Tail(s)

\* DynamicFiltersMixin.filter_bool
FilterBool(title, name, lookup_expr) ==
    [title |-> title, name |-> name, type |-> "bool",
     data |-> [lookup_expr |-> lookup_expr]]

\* DynamicFiltersMixin.filter_datetime_date
FilterDatetimeDate(title, name, lookup_expr) ==
    [title |-> title, name |-> name, type |-> "date",
     data |-> [field_name |-> name, lookup_expr |-> lookup_expr]]

\* The descriptor objects_filtering_data makes for a filterset_fields entry.
FilterFromField(filter_key) ==
    [title |-> Capitalize(ReplaceUnderscores(filter_key)),
     name |-> filter_key,
     type |-> "form_value",
     data |-> [field_type |-> "text"]]

\* x in list
In(x, list) == \E i \in 1..Len(list) : list[i] = x

\* DynamicFiltersMixin.objects_filtering_data: the response, and the class
\* attribute as the call leaves it.  A non-empty filterset_metadata is used
\* as it is, so an append to it is an append to the list of the class.
ObjectsFilteringDataAction(v, attr, lang) ==
    LET shared == attr.kind # "None" /\ attr.items # <<>>
        local == IF shared THEN attr
                 ELSE Attribute("list",
                        [i \in 1..Len(v.filterset_fields) |->
                            FilterFromField(v.filterset_fields[i])])
        date_filter_details ==
            FilterDatetimeDate(Gettext(<<"Creation", " ", "date">>, lang),
                               <<"created_at">>, None)
        ordering == IF v.has_ordering_fields THEN v.ordering_fields ELSE None
    IN  IF In(date_filter_details, local.items)
        THEN [response |-> Http(200, [filters |-> local.items, ordering |-> ordering]),
              filterset_metadata |-> attr]
        ELSE IF local.kind = "tuple"
        THEN [response |-> Escaped("AttributeError"), filterset_metadata |-> attr]
        ELSE [response |->
                Http(200, [filters |-> Append(local.items, date_filter_details),
                           ordering |-> ordering]),
              filterset_metadata |->
                IF shared THEN Attribute("list", Append(attr.items, date_filter_details))
                ELSE attr]

\* --------------------------------------- a view class serving filter data
IsActive == FilterBool(<<"Is", " ", "active">>, <<"is_active">>, None)
CreationDate == FilterDatetimeDate(<<"Creation", " ", "date">>, <<"created_at">>, None)

ConfiguredFiltersetMetadata ==
    {NotConfigured,
     Attribute("list", <<>>),
     Attribute("list", <<IsActive>>),
     Attribute("list", <<CreationDate>>),
     Attribute("list", <<IsActive, CreationDate>>),
     Attribute("list", <<FilterDatetimeDate(<<"Created">>, <<"created_at">>, None)>>),
     Attribute("tuple", <<IsActive>>),
     Attribute("tuple", <<IsActive, CreationDate>>)}

FilterViews ==
    {[filterset_fields |-> f, has_ordering_fields |-> o,
      ordering_fields |-> <<"id", "price">>] :
        f \in {<<>>, <<<<"client", "_", "id">>>>,
               <<<<"client", "_", "id">>, <<"is", "_", "active">>>>},
        o \in BOOLEAN}

InitFilterData ==
    /\ pc = "serving"
    /\ op = "start"
    /\ request = [lang |-> "en"]
    /\ view \in FilterViews
    /\ response = Escaped(NoExc)
    /\ cache = EmptyCache
    /\ db = {}
    /\ steps = 0
    /\ backend_called = FALSE
    /\ filterset_metadata \in ConfiguredFiltersetMetadata

\* A GET of objects_filtering_data in the language of the request.
ObjectsFilteringData ==
    \E lang \in Languages :
        /\ steps < MaxSteps
        /\ LET out == ObjectsFilteringDataAction(view, filterset_metadata, lang)
           IN  /\ response' = out.response
               /\ filterset_metadata' = out.filterset_metadata
        /\ op' = "objects_filtering_data"
        /\ request' = [lang |-> lang]
        /\ steps' = steps + 1
        /\ UNCHANGED <<pc, view, cache, db, backend_called>>

NextFilterData == ObjectsFilteringData

SpecFilterData == InitFilterData /\ [][NextFilterData]_vars

\* C10: objects_filtering_data does not modify state shared between
\* requests: the filterset_metadata list of the view class has after a call
\* exactly the elements it had before it.
C10_SharedListUnchanged ==
    [][op' = "objects_filtering_data" => filterset_metadata' = filterset_metadata]_vars

\* The positions of the 'Creation date' descriptor in a list of filters.
C18_CreationDates(filters) ==
    {i \in 1..Len(filters) :
        filters[i].name = <<"created_at">> /\ filters[i].type = "date"}

\* C18: after any sequence of objects_filtering_data calls the 'filters' of
\* every response holds the 'Creation date' descriptor (name 'created_at',
\* type 'date') exactly once; when filterset_metadata is empty the other
\* entries are one form_value/text descriptor per filterset_fields entry.
C18_CreationDateOnce ==
    (op = "objects_filtering_data" /\ response.exc = NoExc)
    => LET filters == response.body.filters
       IN  /\ Cardinality(C18_CreationDates(filters)) = 1
           /\ (filterset_metadata.kind = "None" \/ filterset_metadata.items = <<>>)
                => /\ Len(filters) = Len(view.filterset_fields) + 1
                   /\ \A i \in 1..Len(view.filterset_fields) :
                        /\ filters[i].name = view.filterset_fields[i]
                        /\ filters[i].type = "form_value"
                        /\ filters[i].data = [field_type |-> "text"]


\* ------------------------------- two requests in objects_filtering_data
\* The requests that run objects_filtering_data at the same time, each in a
\* thread of the server process; the views are instances of one class.
Requests == {1, 2}

\* Where a request is in objects_filtering_data, and its local
\* filterset_metadata: the list of the class (shared), or a list of its own.
At(at, shared, local) == [at |-> at, shared |-> shared, local |-> local]

\* Both requests have arrived; the class has a non-empty filterset_metadata
\* list without the 'Creation date' descriptor.
InitConcurrent ==
    /\ pc = [r \in Requests |-> At("start", FALSE, <<>>)]
    /\ op = "objects_filtering_data"
    /\ request = [r \in Requests |-> [lang |-> "en"]]
    /\ view \in FilterViews
    /\ response = [r \in Requests |-> Escaped(NoExc)]
    /\ cache = EmptyCache
    /\ db = {}
    /\ steps = 0
    /\ backend_called = FALSE
    /\ filterset_metadata \in
            {Attribute("list", <<IsActive>>),
             Attribute("list", <<IsActive, FilterFromField(<<"client", "_", "id">>)>>)}

\* The list a request works on.
LocalMetadata(r) == IF pc[r].shared THEN filterset_metadata.items ELSE pc[r].local

\* date_filter_details of a request
DateFilterDetails(r) ==
    FilterDatetimeDate(Gettext(<<"Creation", " ", "date">>, request[r].lang),
                       <<"created_at">>, None)

\* filterset_metadata = getattr(self, "filterset_metadata", None), and the
\* list made from filterset_fields when that is empty or None.
ReadMetadata(r) ==
    /\ pc[r].at = "start"
    /\ LET shared == filterset_metadata.kind # "None" /\ filterset_metadata.items # <<>>
           local == IF shared THEN <<>>
                    ELSE [i \in 1..Len(view.filterset_fields) |->
                            FilterFromField(view.filterset_fields[i])]
       IN  pc' = [pc EXCEPT ![r] = At("check", shared, local)]
    /\ UNCHANGED <<op, request, view, response, cache, db, steps, backend_called,
                   filterset_metadata>>

\* if date_filter_details not in filterset_metadata
CheckMetadata(r) ==
    /\ pc[r].at = "check"
    /\ pc' = [pc EXCEPT ![r].at = IF In(DateFilterDetails(r), LocalMetadata(r))
                                  THEN "respond" ELSE "append"]
    /\ UNCHANGED <<op, request, view, response, cache, db, steps, backend_called,
                   filterset_metadata>>

\* filterset_metadata.append(date_filter_details)
AppendMetadata(r) ==
    /\ pc[r].at = "append"
    /\ IF pc[r].shared
       THEN IF filterset_metadata.kind = "tuple"
            THEN /\ response' = [response EXCEPT ![r] = Escaped("AttributeError")]
                 /\ pc' = [pc EXCEPT ![r].at = "done"]
                 /\ UNCHANGED filterset_metadata
            ELSE /\ filterset_metadata' =
                        Attribute("list", Append(filterset_metadata.items,
                                                 DateFilterDetails(r)))
                 /\ pc' = [pc EXCEPT ![r].at = "respond"]
                 /\ UNCHANGED response
       ELSE /\ pc' = [pc EXCEPT ![r] = At("respond", FALSE,
                                          Append(pc[r].local, DateFilterDetails(r)))]
            /\ UNCHANGED <<response, filterset_metadata>>
    /\ UNCHANGED <<op, request, view, cache, db, steps, backend_called>>

\* return Response({"filters": filterset_metadata, "ordering": ...}), rendered
\* from the list as it is then.
RespondMetadata(r) ==
    /\ pc[r].at = "respond"
    /\ response' = [response EXCEPT ![r] =
            Http(200, [filters |-> LocalMetadata(r),
                       ordering |-> IF view.has_ordering_fields
                                    THEN view.ordering_fields ELSE None])]
    /\ pc' = [pc EXCEPT ![r].at = "done"]
    /\ UNCHANGED <<op, request, view, cache, db, steps, backend_called,
                   filterset_metadata>>

NextConcurrent ==
    \E r \in Requests :
        ReadMetadata(r) \/ CheckMetadata(r) \/ AppendMetadata(r) \/ RespondMetadata(r)

SpecConcurrent == InitConcurrent /\ [][NextConcurrent]_vars

\* C26: when two requests run objects_filtering_data concurrently on views
\* of one class whose filterset_metadata is a non-empty list without the
\* 'Creation date' descriptor, under every interleaving the 'filters' of each
\* response and the filterset_metadata list of the class hold the
\* 'Creation date' descriptor at most once.
C26_CreationDateAtMostOnce ==
    /\ Cardinality(C18_CreationDates(filterset_metadata.items)) <= 1
    /\ \A r \in Requests :
            (pc[r].at = "done" /\ response[r].exc = NoExc)
            => Cardinality(C18_CreationDates(response[r].body.filters)) <= 1

\* One request alone leaves the descriptor once in the list and its answer.
C26_AloneOnce ==
    (pc[1].at = "done" /\ pc[2].at = "start" /\ response[1].exc = NoExc)
    => /\ Cardinality(C18_CreationDates(filterset_metadata.items)) = 1
       /\ Cardinality(C18_CreationDates(response[1].body.filters)) = 1

\* ================================================ DrfDynamicFilterBackend ==
MaxDescriptors == 2

\* reverse_lazy(url)
ReverseLazy(url) == <<"reverse_lazy">> \o url

\* DynamicFiltersMixin.build_select_choices
BuildSelectChoices(select_choices) ==
    <<[title |-> <<"All">>, value |-> <<>>, selected |-> TRUE]>>
    \o [i \in 1..Len(select_choices) |->
            [title |-> select_choices[i].name, value |-> select_choices[i].value]]

\* DynamicFiltersMixin.filter_select
FilterSelect(title, name, choices_class, is_multiple, lookup_expr) ==
    [title |-> title, name |-> name,
     type |-> IF is_multiple THEN "select_multiple" ELSE "select",
     data |-> [choices |-> BuildSelectChoices(choices_class),
               lookup_expr |-> lookup_expr]]

\* DynamicFiltersMixin.filter_autocomplete
FilterAutocomplete(title, name, url) ==
    [title |-> title, name |-> name, type |-> "autocomplete",
     data |-> [url |-> ReverseLazy(url)]]

\* DynamicFiltersMixin.filter_client
FilterClient(title, name) ==
    FilterAutocomplete(IF Truthy(title) THEN title ELSE <<"Client">>,
                       IF Truthy(name) THEN name ELSE <<"client">>,
                       <<"v1:api:clients:bankclient-objects-autocomplete">>)

\* DynamicFiltersMixin.filter_client_account
FilterClientAccount(title, name) ==
    FilterAutocomplete(IF Truthy(title) THEN title ELSE <<"Account">>,
                       IF Truthy(name) THEN name ELSE <<"account">>,
                       <<"v1:api:clients:bankaccount-objects-autocomplete">>)

\* DynamicFiltersMixin.filter_form_value
FilterFormValue(title, name, field_type, lookup_expr) ==
    [title |-> title, name |-> name, type |-> "form_value",
     data |-> [field_type |-> IF Truthy(field_type) THEN field_type ELSE <<"text">>,
               lookup_expr |-> lookup_expr]]

\* DynamicFiltersMixin.filter_range; a step of 0 or None becomes 1.
FilterRange(title, name, min_, max_, step, lookup_expr) ==
    [title |-> title, name |-> name, type |-> "range",
     data |-> [min |-> min_, max |-> max_,
               step |-> IF step = 0 THEN 1 ELSE step,
               lookup_expr |-> lookup_expr]]

\* DynamicFiltersMixin.filter_date
FilterDate(title, name, lookup_expr) ==
    [title |-> title, name |-> name, type |-> "date",
     data |-> [field_name |-> name, lookup_expr |-> lookup_expr]]

\* DrfDynamicFilterBackend.TYPE_MAPPING
TYPE_MAPPING ==
    [date |-> "DateFilter",
     bool |-> "BooleanFilter",
     autocomplete |-> "CharFilter",
     form_value |-> "CharFilter",
     select |-> "ChoiceFilter",
     range |-> "RangeFilter"]

\* The arguments a filter class is constructed with; an argument that is not
\* passed keeps its default.
NewFilter(mapped_field, field_name, lookup_expr, choices) ==
    [class |-> mapped_field, field_name |-> field_name,
     lookup_expr |-> lookup_expr, choices |-> choices]

\* The state of the DynamicFilterSet class while it is built.
Filterset(exc, base_filters, fields) ==
    [exc |-> exc, base_filters |-> base_filters, fields |-> fields]

\* DrfDynamicFilterBackend.get_filterset_class: the body of the loop over
\* filterset_metadata.
FiltersetStep(metadata, fs) ==
    IF fs.exc # NoExc THEN fs
    ELSE IF "type" \notin DOMAIN metadata THEN [fs EXCEPT !.exc = "KeyError"]
    ELSE IF "data" \notin DOMAIN metadata THEN [fs EXCEPT !.exc = "KeyError"]
    ELSE IF "name" \notin DOMAIN metadata THEN [fs EXCEPT !.exc = "KeyError"]
    ELSE
    LET mapped_field == Get(TYPE_MAPPING, metadata.type, "None")
        data == metadata.data
        field_name == Get(data, "field_name", metadata.name)
        fields == Append(fs.fields, field_name)
        lookup_expr == Get(data, "lookup_expr", None)
    IN  IF metadata.type = "select"
        THEN Filterset(NoExc,
                DictSet(fs.base_filters, metadata.name,
                    NewFilter(mapped_field, field_name, None,
                              Get(metadata.data, "choices", <<>>))),
                fields)
        ELSE IF mapped_field = "None"
        THEN Filterset("TypeError", fs.base_filters, fields)
        ELSE IF Truthy(lookup_expr)
        THEN Filterset(NoExc,
                DictSet(fs.base_filters, metadata.name,
                    NewFilter(mapped_field, field_name, lookup_expr, None)),
                fields)
        ELSE Filterset(NoExc,
                DictSet(fs.base_filters, metadata.name,
                    NewFilter(mapped_field, field_name, None, None)),
                fields)

RECURSIVE FiltersetLoop(_, _)
FiltersetLoop(filterset_metadata_, fs) ==
    IF filterset_metadata_ = <<>> THEN fs
    ELSE FiltersetLoop(Tail(filterset_metadata_),
                       FiltersetStep(Head(filterset_metadata_), fs))

\* DrfDynamicFilterBackend.get_filterset_class; the parent returns the
\* filterset_class the method has put on the view.
GetFiltersetClass(attr) ==
    FiltersetLoop(IF attr.kind = "None" THEN <<>> ELSE attr.items,
                  Filterset(NoExc, <<>>, <<>>))

\* ------------------------------------------ views with filterset_metadata
StatusChoices ==
    <<[name |-> <<"OPEN">>, value |-> <<"open">>],
      [name |-> <<"CLOSED">>, value |-> <<"closed">>]>>

\* What the builder methods return.
BuilderOutputs ==
    {FilterSelect(<<"Status">>, <<"status">>, StatusChoices, FALSE, None),
     FilterSelect(<<"Status">>, <<"status">>, StatusChoices, TRUE, None),
     FilterAutocomplete(<<"Owner">>, <<"owner">>, <<"owners-autocomplete">>),
     FilterClient(None, None),
     FilterClientAccount(None, None),
     FilterBool(<<"Is", " ", "active">>, <<"is_active">>, None),
     FilterFormValue(<<"Name">>, <<"name">>, None, <<"icontains">>),
     FilterRange(<<"Price">>, <<"price">>, 0, 100, 0, None),
     FilterDatetimeDate(<<"Creation", " ", "date">>, <<"created_at">>, None),
     FilterDate(<<"Birthday">>, <<"birthday">>, <<"gte">>)}

\* The descriptors of the example usage of DrfDynamicFilterBackend.
ExampleDescriptors ==
    {[name |-> <<"created_at">>, type |-> "date", data |-> [lookup_expr |-> <<"gte">>]],
     [name |-> <<"is_active">>, type |-> "bool"],
     [name |-> <<"category">>, type |-> "select",
      data |-> [choices |-> <<<<1, <<"Category 1">>>>, <<2, <<"Category 2">>>>>>]]}

FiltersetMetadataChoices ==
    {Attribute("list", l) :
        l \in UNION {[1..n -> BuilderOutputs \cup ExampleDescriptors] :
                        n \in 0..MaxDescriptors}}

InitFilterset ==
    /\ pc = "received"
    /\ op = "get_filterset_class"
    /\ request = [lang |-> "en"]
    /\ view = [filterset_class |-> "None"]
    /\ response = Filterset(NoExc, <<>>, <<>>)
    /\ cache = EmptyCache
    /\ db = {}
    /\ steps = 0
    /\ backend_called = FALSE
    /\ filterset_metadata \in FiltersetMetadataChoices

\* DrfDynamicFilterBackend.get_filterset_class for a request to the view.
GetFiltersetClassCall ==
    /\ pc = "received"
    /\ op = "get_filterset_class"
    /\ LET fs == GetFiltersetClass(filterset_metadata)
       IN  /\ response' = fs
           /\ view' = IF fs.exc = NoExc
                      THEN [view EXCEPT !.filterset_class = "DynamicFilterSet"]
                      ELSE view
    /\ pc' = "done"
    /\ UNCHANGED <<op, request, cache, db, steps, backend_called, filterset_metadata>>

NextFilterset == GetFiltersetClassCall

SpecFilterset == InitFilterset /\ [][NextFilterset]_vars

FiltersetDone == pc = "done" /\ op = "get_filterset_class"

\* C11: building the filterset for a filterset_metadata made of builder
\* outputs never fails: every type the builders produce has a filter class.
C11_EveryBuilderTypeMapped ==
    (FiltersetDone
     /\ \A i \in 1..Len(filterset_metadata.items) :
            filterset_metadata.items[i] \in BuilderOutputs)
    => response.exc = NoExc

\* C12: a descriptor with 'name' and 'type' but no 'data' is accepted and
\* yields a filter on the field named by 'name' with no lookup expression.
C12_DescriptorWithoutDataAccepted ==
    (FiltersetDone
     /\ Len(filterset_metadata.items) = 1
     /\ "data" \notin DOMAIN filterset_metadata.items[1])
    => /\ response.exc = NoExc
       /\ \E i \in 1..Len(response.base_filters) :
            /\ response.base_filters[i][1] = filterset_metadata.items[1].name
            /\ response.base_filters[i][2].field_name = filterset_metadata.items[1].name
            /\ response.base_filters[i][2].lookup_expr = None

\* ============================================================ ApiRenderer ==
\* json.dumps(value, cls=JSONEncoder)
JsonDumps(value) == [exc |-> NoExc, encoder |-> "JSONEncoder", value |-> value]

\* JSONRenderer.render(data)
JSONRendererRender(data) == [exc |-> NoExc, encoder |-> "JSONRenderer", value |-> data]

\* An exception leaving render.
RenderRaised(exc) == [exc |-> exc, encoder |-> "none", value |-> <<>>]

\* The keys the data of a response may have; a mapping gives Absent for a
\* key it does not hold.
RenderKeys == {"results", "count", "next", "previous", "facets", "errors", "detail"}
Absent == <<"<absent>">>

\* key in d, d.get(key, default)
HasKey(d, key) == d[key] # Absent
MappingGet(d, key, default) == IF HasKey(d, key) THEN d[key] ELSE default

\* The data of a response: a mapping, a list, or None.
Data(kind, mapping, items) == [kind |-> kind, mapping |-> mapping, items |-> items]
DataValue(data) == IF data.kind = "mapping" THEN data.mapping ELSE data.items

\* ApiRenderer.render
ApiRendererRender(data) ==
    IF data.kind # "mapping" THEN JsonDumps([object |-> DataValue(data)])
    ELSE
      LET d == data.mapping
      IN  IF MappingGet(d, "results", None) # None
          THEN IF ~HasKey(d, "count") \/ ~HasKey(d, "next") \/ ~HasKey(d, "previous")
               THEN RenderRaised("KeyError")
               ELSE IF MappingGet(d, "facets", None) # None
               THEN JsonDumps([objects |-> d["results"], count |-> d["count"],
                               next_page |-> d["next"], prev_page |-> d["previous"],
                               facets |-> d["facets"]])
               ELSE JsonDumps([objects |-> d["results"], count |-> d["count"],
                               next_page |-> d["next"], prev_page |-> d["previous"]])
          ELSE IF MappingGet(d, "errors", None) # None
          THEN JSONRendererRender(d)
          ELSE JsonDumps([object |-> d])

\* ------------------------------------------------- data given to render
RenderValues(key) ==
    CASE key = "results" -> {Absent, None, <<>>, <<"row">>}
      [] key = "count" -> {Absent, <<"0">>, <<"1">>}
      [] key = "next" -> {Absent, None, <<"?page=2">>}
      [] key = "previous" -> {Absent, None}
      [] key = "facets" -> {Absent, None, <<"brand">>}
      [] key = "errors" -> {Absent, None, <<"not authenticated">>}
      [] key = "detail" -> {Absent, <<"ok">>}

RenderMappings ==
    [results : RenderValues("results"), count : RenderValues("count"),
     next : RenderValues("next"), previous : RenderValues("previous"),
     facets : RenderValues("facets"), errors : RenderValues("errors"),
     detail : RenderValues("detail")]

EmptyMapping == [k \in RenderKeys |-> Absent]

RenderData ==
    {Data("mapping", m, <<>>) : m \in RenderMappings}
    \cup {Data("list", EmptyMapping, <<>>), Data("list", EmptyMapping, <<"row">>),
          Data("None", EmptyMapping, None)}

InitRender ==
    /\ pc = "received"
    /\ op = "render"
    /\ request \in RenderData
    /\ view = NoView
    /\ response = RenderRaised(NoExc)
    /\ cache = EmptyCache
    /\ db = {}
    /\ steps = 0
    /\ backend_called = FALSE
    /\ filterset_metadata = NotConfigured

\* ApiRenderer.render of the data of a response.
Render ==
    /\ pc = "received"
    /\ op = "render"
    /\ response' = ApiRendererRender(request)
    /\ pc' = "done"
    /\ UNCHANGED <<op, request, view, cache, db, steps, backend_called,
                   filterset_metadata>>

NextRender == Render

SpecRender == InitRender /\ [][NextRender]_vars

RenderDone == pc = "done" /\ op = "render"

C15_HasResults ==
    request.kind = "mapping" /\ MappingGet(request.mapping, "results", None) # None

C15_HasErrors ==
    request.kind = "mapping" /\ MappingGet(request.mapping, "errors", None) # None

\* C15: render chooses the payload shape by the data: a mapping whose
\* 'results' is not None becomes {objects, count, next_page, prev_page},
\* with 'facets' only when the data has non-None facets; a mapping without
\* results but with non-None 'errors' goes to the default JSON renderer
\* unchanged; every other value becomes {object: data}.
C15_PayloadShape ==
    RenderDone =>
        /\ response.exc = NoExc
        /\ C15_HasResults =>
            /\ response.encoder = "JSONEncoder"
            /\ response.value.objects = request.mapping["results"]
            /\ response.value.count = request.mapping["count"]
            /\ response.value.next_page = request.mapping["next"]
            /\ response.value.prev_page = request.mapping["previous"]
            /\ "facets" \in DOMAIN response.value
                <=> MappingGet(request.mapping, "facets", None) # None
            /\ "facets" \in DOMAIN response.value
                => response.value.facets = request.mapping["facets"]
            /\ DOMAIN response.value \subseteq
                {"objects", "count", "next_page", "prev_page", "facets"}
        /\ (~C15_HasResults /\ C15_HasErrors) =>
            /\ response.encoder = "JSONRenderer"
            /\ response.value = request.mapping
        /\ (~C15_HasResults /\ ~C15_HasErrors) =>
            /\ response.encoder = "JSONEncoder"
            /\ DOMAIN response.value = {"object"}
            /\ response.value.object = DataValue(request)

====
